---- MODULE Spec2Model ----
(***************************************************************************)
(* A model of py/imagefunc.py of ComfyUI_LayerStyle: a library of          *)
(* stateless image, mask, colour and number helpers.  Every helper is one  *)
(* action: it draws its arguments from bounded sets, records them in       *)
(* `call` and records what the helper returns (or that it raised) in       *)
(* `ret`.  The only state the library keeps between calls is the state of  *)
(* Python's module-level `random` generator, `rng`.  The helpers share     *)
(* nothing else, so a behaviour is the import of the module followed by    *)
(* one call (two for random_numbers, whose second call meets the generator *)
(* state the first one left).                                              *)
(*                                                                         *)
(* An image is a record [mode, w, h, px]: px maps <<x, y>> (x in 0..w-1,   *)
(* y in 0..h-1, top-left origin) to a pixel, an <<R, G, B>> triple of      *)
(* 0..255 for mode "RGB" and one 0..255 sample for mode "L".               *)
(***************************************************************************)
EXTENDS Integers, Sequences, FiniteSets, TLC

VARIABLES call, ret, rng

vars == <<call, ret, rng>>

(***************************************************************************)
(* Bounds of the model.                                                    *)
(***************************************************************************)
MaxW     == 3   \* widest image of shift_image
MaxH     == 2   \* tallest image of shift_image
MaxShift == 3   \* largest |distance_x|, |distance_y| (beyond the image size)
MaxChopW == 1   \* widest image of chop_image
MaxMaskLen == 1 \* most samples of a mask of mask_invert
MaxGammaW == 1  \* widest image of gamma_trans
MaxDim   == 4   \* largest side of the images of fit_resize_image
MaxRotW  == 2   \* widest image of __rotate_expand
MaxRotH  == 2   \* tallest image of __rotate_expand
MaxSSAA  == 2   \* largest SSAA factor of __rotate_expand
MaxTotal == 3   \* largest total of random_numbers
MaxRange == 3   \* largest random_range of random_numbers
MaxSeed  == 2   \* largest seed of random_numbers
MaxLutLines == 3 \* most lines of a LUT file of lut_apply (besides a header)
MaxIniLines == 3 \* most lines of resource_dir.ini
MaxToneColors == 3 \* most colours of an image of get_image_color_tone
MaxToneCount == 2 \* most pixels of one colour in get_image_color_tone
MaxBrightPixels == 4 \* most pixels of an image of get_image_bright_average
MaxRectW == 2 \* widest mask of max_inscribed_rect
MaxRectH == 2 \* tallest mask of max_inscribed_rect
MaxContour == 2 \* most points of the first contour of max_inscribed_rect

(***************************************************************************)
(* Python and PIL primitives.                                              *)
(***************************************************************************)
Abs(n) == IF n < 0 THEN -n ELSE n

Min(a, b) == IF a < b THEN a ELSE b

Max(a, b) == IF a > b THEN a ELSE b

\* Python's a % b for b > 0: the result has the sign of b (0 <= r < b).
PyMod(a, b) == a % b

Coords(w, h) == (0 .. w - 1) \X (0 .. h - 1)

\* Image.new(mode, (w, h), color)
NewImage(mode, w, h, color) ==
    [mode |-> mode, w |-> w, h |-> h, px |-> [c \in Coords(w, h) |-> color]]

Black == <<0, 0, 0>>

\* The module is imported and no helper has been called yet.
Imported == call.fn = "import"

\* The outcome of a call that ended in an exception, and of one that did not.
Raised(exception) == [raised |-> exception]

Returned(r) == r.raised = ""

(***************************************************************************)
(* Floating-point values of the skimage/numpy arithmetic (float64) are     *)
(* modelled as exact fractions [n, d] (the value n / d, d > 0).  For the   *)
(* 8-bit inputs of this library the float64 result and the exact one round *)
(* to the same 8-bit sample.                                               *)
(***************************************************************************)
Rat(n, d) == [n |-> n, d |-> d]

RatLess(p, q) == p.n * q.d < q.n * p.d

\* np.rint / Python round(): n / d rounded to the nearest integer, a tie to
\* the even one.
RoundHalfEven(n, d) ==
    LET q == n \div d
        r == n % d
    IN  IF 2 * r > d \/ (2 * r = d /\ q % 2 = 1) THEN q + 1 ELSE q

\* img = img * (1 - mask_1) with mask_1 = img < 0
ClampBelow(v) == IF v.n < 0 THEN Rat(0, 1) ELSE v

\* A helper without the upper clamp.
ClampAboveOmitted(v) == v

\* img = img * (1 - mask_2) + mask_2 with mask_2 = img > 1
ClampAbove(v) == IF v.n > v.d THEN Rat(1, 1) ELSE v

\* The integer square root, and floor(sqrt(n) * 10^digits) digit by digit.
ISqrt(n) == CHOOSE s \in 0 .. 256 : s * s <= n /\ n < (s + 1) * (s + 1)

RECURSIVE SqrtDigits(_, _, _)
SqrtDigits(root, rem, digits) ==
    IF digits = 0 THEN root
    ELSE LET d == CHOOSE k \in 0 .. 9 :
                    /\ (20 * root + k) * k <= rem * 100
                    /\ (k = 9 \/ (20 * root + k + 1) * (k + 1) > rem * 100)
         IN  SqrtDigits(10 * root + d, rem * 100 - (20 * root + d) * d,
                        digits - 1)

\* floor(sqrt(n) * 10000) for n in 0 .. 65025
Sqrt4(n) == SqrtDigits(ISqrt(n), n - ISqrt(n) * ISqrt(n), 4)

(***************************************************************************)
(* IEEE-754 binary32 (numpy float32, torch float32, C float), for the      *)
(* values this library computes: a non-negative float is [m, e], the value *)
(* m * 2^e with 2^23 <= m < 2^24, or m = 0 = e for zero.  Every operation  *)
(* rounds the exact result to the nearest float, a tie to the even         *)
(* mantissa.  Exact intermediate integers exceed 31 bits and are kept in   *)
(* two limbs [hi, lo], the value hi * 2^20 + lo with 0 <= lo < 2^20.       *)
(***************************************************************************)
F32Zero == [m |-> 0, e |-> 0]

F32One == [m |-> 2^23, e |-> -23]

WNorm(hi, lo) == [hi |-> hi + lo \div 2^20, lo |-> lo % 2^20]

\* mantissa * n for a small integer n >= 0
WMulSmall(m, n) == WNorm((m \div 2^20) * n, (m % 2^20) * n)

\* a * 2^k for a small integer a >= 0
WShl(a, k) ==
    IF k >= 20 THEN [hi |-> a * 2^(k - 20), lo |-> 0] ELSE WNorm(0, a * 2^k)

WAdd(u, v) == WNorm(u.hi + v.hi, u.lo + v.lo)

\* u - v for u >= v
WSub(u, v) == WNorm(u.hi - v.hi, u.lo - v.lo)

BitLen(n) == CHOOSE k \in 0 .. 31 : n < 2^k /\ (k = 0 \/ n >= 2^(k - 1))

WBitLen(u) == IF u.hi > 0 THEN 20 + BitLen(u.hi) ELSE BitLen(u.lo)

\* The float nearest to u * 2^e.
F32Round(u, e) ==
    LET len == WBitLen(u)
        s   == len - 24
        q   == u.hi * 2^(20 - s) + u.lo \div 2^s
        r   == u.lo % 2^s
        m   == IF 2 * r > 2^s \/ (2 * r = 2^s /\ q % 2 = 1) THEN q + 1 ELSE q
    IN  IF len = 0 THEN F32Zero
        ELSE IF len <= 24
        THEN [m |-> (u.hi * 2^20 + u.lo) * 2^(24 - len), e |-> e - (24 - len)]
        ELSE IF m = 2^24 THEN [m |-> 2^23, e |-> e + s + 1]
        ELSE [m |-> m, e |-> e + s]

\* Long division: q = floor(num * 2^k / den) and its remainder r, doubled
\* until q has 24 bits.
RECURSIVE DivBits(_, _, _, _)
DivBits(q, r, den, k) ==
    IF q >= 2^23 THEN [q |-> q, r |-> r, k |-> k]
    ELSE IF 2 * r >= den THEN DivBits(2 * q + 1, 2 * r - den, den, k + 1)
    ELSE DivBits(2 * q, 2 * r, den, k + 1)

\* float32(num) / float32(den) for integers 0 <= num < 2^23, 0 < den < 2^23
F32Div(num, den) ==
    LET b == DivBits(num \div den, num % den, den, 0)
        m == IF 2 * b.r > den \/ (2 * b.r = den /\ b.q % 2 = 1)
             THEN b.q + 1 ELSE b.q
    IN  IF num = 0 THEN F32Zero
        ELSE IF m = 2^24 THEN [m |-> 2^23, e |-> 1 - b.k]
        ELSE [m |-> m, e |-> -b.k]

\* f * float32(n) for an integer 0 <= n <= 255
F32MulInt(f, n) == F32Round(WMulSmall(f.m, n), f.e)

\* float32(a) + f and float32(a) - f for an integer 0 <= a <= 255 and a
\* float 0 < f < 2^23 (f <= a for the difference)
F32IntPlus(a, f) == F32Round(WAdd(WShl(a, -f.e), WNorm(0, f.m)), f.e)

F32IntMinus(a, f) == F32Round(WSub(WShl(a, -f.e), WNorm(0, f.m)), f.e)

\* The integer part of f (a C cast to an integer type, numpy astype(uint8)).
F32Trunc(f) ==
    IF f.e >= 0 THEN f.m * 2^f.e
    ELSE IF -f.e >= 24 THEN 0
    ELSE f.m \div 2^(-f.e)

(***************************************************************************)
(* Converters.  A cv2 pixel is <<B, G, R>>; a ski sample is a fraction.    *)
(***************************************************************************)
\* cv2.cvtColor(..., COLOR_RGB2BGR) on one pixel
pil2cv2(p) == <<p[3], p[2], p[1]>>

\* cv2.cvtColor(..., COLOR_BGR2RGB) on one pixel
cv22pil(p) == <<p[3], p[2], p[1]>>

\* img_as_float on one 8-bit sample
cv22ski(k) == Rat(k, 255)

\* img_as_ubyte refuses a float image with a sample outside [-1, 1].
SkiOutOfRange(v) == v.n < -v.d \/ v.n > v.d

\* img_as_ubyte on one sample in [-1, 1]: clip(rint(v * 255), 0, 255)
ski2cv2(v) ==
    LET r == IF v.d % 255 = 0 THEN RoundHalfEven(v.n, v.d \div 255)
             ELSE RoundHalfEven(255 * v.n, v.d)
    IN  Min(Max(r, 0), 255)

(***************************************************************************)
(* The per-sample blend formulas: x is the background sample, y the layer  *)
(* sample (0..255), img_1 = x / 255 and img_2 = y / 255; the result is the *)
(* float the formula leaves before ski2cv2.  0.001 is 1 / 1000.            *)
(***************************************************************************)
\* 1 - (1 - img_2) / (img_1 + 0.001)
blend_color_burn(x, y) ==
    ClampAbove(ClampBelow(
        Rat((1000 * x + 255) - 1000 * (255 - y), 1000 * x + 255)))

\* img_2 / (1.0 - img_1 + 0.001)
blend_color_dodge(x, y) ==
    ClampAbove(Rat(1000 * y, 1000 * (255 - x) + 255))

\* img_1 + img_2 - 1
blend_linear_burn(x, y) == ClampBelow(Rat(x + y - 255, 255))

\* img_1 + img_2
blend_linear_dodge(x, y) == ClampAbove(Rat(x + y, 255))

\* img_1 * mask + img_2 * (1 - mask) with mask = img_1 - img_2 > 0
blend_lighten(x, y) == IF x - y > 0 THEN Rat(x, 255) ELSE Rat(y, 255)

\* img_1 * mask + img_2 * (1 - mask) with mask = img_1 - img_2 < 0
blend_dark(x, y) == IF x - y < 0 THEN Rat(x, 255) ELSE Rat(y, 255)

\* 1 - (1 - img_1) * (1 - img_2)
blend_screen(x, y) == Rat(65025 - (255 - x) * (255 - y), 65025)

\* mask = img_2 < 0.5
blend_overlay(x, y) ==
    IF 2 * y < 255 THEN Rat(2 * x * y, 65025)
    ELSE Rat(65025 - 2 * (255 - x) * (255 - y), 65025)

\* mask = img_1 < 0.5; T1 = (2a-1)(b-b*b)+b; T2 = (2a-1)(sqrt(b)-b)+b, with
\* sqrt(b) = sqrt(255 * y) / 255 taken to four decimals of sqrt(255 * y).
blend_soft_light(x, y) ==
    IF 2 * x < 255
    THEN Rat((2 * x - 255) * (255 * y - y * y) + 65025 * y, 16581375)
    ELSE Rat(2550000 * y + (2 * x - 255) * (Sqrt4(255 * y) - 10000 * y),
             650250000)

\* mask = img_1 < 0.5; T1 = 2ab; T2 = 1 - 2(1-a)(1-b)
blend_hard_light(x, y) ==
    IF 2 * x < 255 THEN Rat(2 * x * y, 65025)
    ELSE Rat(65025 - 2 * (255 - x) * (255 - y), 65025)

\* mask = img_1 < 0.5; T1 = 1 - (1-b)/(2a+0.001), kept >= 0;
\* T2 = b/(2(1-a)+0.001), kept <= 1
blend_vivid_light(x, y) ==
    IF 2 * x < 255
    THEN ClampBelow(Rat((2000 * x + 255) - 1000 * (255 - y), 2000 * x + 255))
    ELSE ClampAbove(Rat(1000 * y, 2000 * (255 - x) + 255))

\* mask_1 = img_2 < 2 img_1 - 1; mask_2 = img_2 > 2 img_1
blend_pin_light(x, y) ==
    IF y < 2 * x - 255 THEN Rat(2 * x - 255, 255)
    ELSE IF y > 2 * x THEN Rat(2 * x, 255)
    ELSE Rat(y, 255)

\* img_2 + img_1 * 2 - 1
blend_linear_light(x, y) == ClampAbove(ClampBelow(Rat(y + 2 * x - 255, 255)))

\* mask = img_1 + img_2 > 1; img = (img * (1 - mask) + mask) * mask
blend_hard_mix(x, y) == IF x + y > 255 THEN Rat(1, 1) ELSE Rat(0, 1)

\* The float a blend_* helper computes for one sample pair.
SkiBlend(mode, x, y) ==
    CASE mode = "color_burn"   -> blend_color_burn(x, y)
      [] mode = "color_dodge"  -> blend_color_dodge(x, y)
      [] mode = "linear_burn"  -> blend_linear_burn(x, y)
      [] mode = "linear_dodge" -> blend_linear_dodge(x, y)
      [] mode = "overlay"      -> blend_overlay(x, y)
      [] mode = "soft_light"   -> blend_soft_light(x, y)
      [] mode = "hard_light"   -> blend_hard_light(x, y)
      [] mode = "vivid_light"  -> blend_vivid_light(x, y)
      [] mode = "pin_light"    -> blend_pin_light(x, y)
      [] mode = "linear_light" -> blend_linear_light(x, y)
      [] mode = "hard_mix"     -> blend_hard_mix(x, y)

SkiModes ==
    {"color_burn", "color_dodge", "linear_burn", "linear_dodge", "overlay",
     "soft_light", "hard_light", "vivid_light", "pin_light", "linear_light",
     "hard_mix"}

\* One pixel through a blend_* helper:
\* cv22pil(ski2cv2(formula(cv22ski(pil2cv2(background)), cv22ski(pil2cv2(layer)))))
SkiBlendPixel(mode, bg, layer) ==
    LET b == pil2cv2(bg)
        l == pil2cv2(layer)
    IN  cv22pil(<<ski2cv2(SkiBlend(mode, b[1], l[1])),
                  ski2cv2(SkiBlend(mode, b[2], l[2])),
                  ski2cv2(SkiBlend(mode, b[3], l[3]))>>)

\* PIL's ImageChops on one sample pair (scale 1, offset 0 for add/subtract).
ImageChops(mode, x, y) ==
    CASE mode = "multply"    -> (x * y) \div 255
      [] mode = "screen"     -> 255 - ((255 - x) * (255 - y)) \div 255
      [] mode = "add"        -> Min(x + y, 255)
      [] mode = "subtract"   -> Max(x - y, 0)
      [] mode = "difference" -> Abs(x - y)
      [] mode = "darker"     -> Min(x, y)
      [] mode = "lighter"    -> Max(x, y)

ChopsModes ==
    {"multply", "screen", "add", "subtract", "difference", "darker", "lighter"}

chop_mode == <<"normal", "multply", "screen", "add", "subtract", "difference",
               "darker", "lighter", "color_burn", "color_dodge", "linear_burn",
               "linear_dodge", "overlay", "soft_light", "hard_light",
               "vivid_light", "pin_light", "linear_light", "hard_mix">>

(***************************************************************************)
(* chop_image                                                              *)
(***************************************************************************)
\* PIL's Image.blend(im1, im2, alpha) on one sample pair, 0 < alpha < 1:
\* (UINT8)(in1 + alpha * (in2 - in1)) in C float arithmetic, with
\* alpha = 1.0 - float(opacity) / 100 passed as a C float.
BlendSample(in1, in2, opacity) ==
    LET alpha == F32Div(100 - opacity, 100)
    IN  IF in2 = in1 THEN in1
        ELSE IF in2 > in1
        THEN F32Trunc(F32IntPlus(in1, F32MulInt(alpha, in2 - in1)))
        ELSE F32Trunc(F32IntMinus(in1, F32MulInt(alpha, in1 - in2)))

\* Image.blend with its operands exchanged.
ImageBlendSwapped(im1, im2, opacity) ==
    [im1 EXCEPT !.px = [c \in Coords(im1.w, im1.h) |->
        [i \in 1 .. 3 |-> BlendSample(im2.px[c][i], im1.px[c][i], opacity)]]]

ImageBlend(im1, im2, opacity) ==
    [im1 EXCEPT !.px = [c \in Coords(im1.w, im1.h) |->
        [i \in 1 .. 3 |-> BlendSample(im1.px[c][i], im2.px[c][i], opacity)]]]

\* The if-chain with 'normal' taking the branch of 'multply'.
BlendModeNormalMultiplies(background_image, layer_image, blend_mode) ==
    [background_image EXCEPT !.px =
        [c \in Coords(background_image.w, background_image.h) |->
            [i \in 1 .. 3 |-> ImageChops("multply", background_image.px[c][i],
                                         layer_image.px[c][i])]]]

\* The if-chain over blend_mode: ret_image before the opacity step.
BlendMode(background_image, layer_image, blend_mode) ==
    LET cs == Coords(background_image.w, background_image.h)
    IN  IF blend_mode = "normal" THEN layer_image
        ELSE IF blend_mode \in ChopsModes
        THEN [background_image EXCEPT !.px = [c \in cs |->
                [i \in 1 .. 3 |-> ImageChops(blend_mode,
                                             background_image.px[c][i],
                                             layer_image.px[c][i])]]]
        ELSE IF blend_mode \in SkiModes
        THEN [background_image EXCEPT !.px = [c \in cs |->
                SkiBlendPixel(blend_mode, background_image.px[c],
                              layer_image.px[c])]]
        ELSE background_image

\* ski2cv2 raises ValueError on a float sample outside [-1, 1].
ChopRaises(background_image, layer_image, blend_mode) ==
    /\ blend_mode \in SkiModes
    /\ \E c \in Coords(background_image.w, background_image.h), i \in 1 .. 3 :
           SkiOutOfRange(SkiBlend(blend_mode, background_image.px[c][i],
                                  layer_image.px[c][i]))

chop_image(background_image, layer_image, blend_mode, opacity) ==
    LET ret_image == BlendMode(background_image, layer_image, blend_mode)
    IN  IF opacity = 0 THEN background_image
        ELSE IF opacity < 100
        THEN ImageBlend(ret_image, background_image, opacity)
        ELSE ret_image

ChopColors ==
    {<<0, 75, 255>>, <<255, 128, 0>>, <<127, 200, 1>>,
     <<75, 0, 128>>, <<254, 255, 127>>}

Opacities == {0, 1, 16, 50, 84, 99, 100}

\* RGB images of one row.
RowImages(width, colors) ==
    { [mode |-> "RGB", w |-> width, h |-> 1, px |-> p] :
        p \in [Coords(width, 1) -> colors] }

ChopImage ==
    /\ Imported
    /\ \E width \in 1 .. MaxChopW :
       \E background_image \in RowImages(width, ChopColors),
          layer_image \in RowImages(width, ChopColors),
          m \in 1 .. Len(chop_mode), opacity \in Opacities :
        /\ call' = [fn |-> "chop_image",
                    background_image |-> background_image,
                    layer_image |-> layer_image,
                    blend_mode |-> chop_mode[m], opacity |-> opacity]
        /\ ret' = IF ChopRaises(background_image, layer_image, chop_mode[m])
                  THEN Raised("ValueError")
                  ELSE [raised |-> "",
                        image |-> chop_image(background_image, layer_image,
                                             chop_mode[m], opacity),
                        background_image |-> background_image,
                        layer_image |-> layer_image]
        /\ UNCHANGED rng

(***************************************************************************)
(* shift_image                                                             *)
(***************************************************************************)
\* CyclicOrig with the remainder of C (truncated towards zero) under abs().
CyclicOrigTruncated(pos, distance, size) ==
    LET orig == pos + distance
        rem  == IF orig < 0 THEN -((-orig) % size) ELSE orig % size
    IN  IF orig > size - 1 \/ orig < 0 THEN Abs(rem) ELSE orig

\* The source coordinate of one axis in wraparound mode.
CyclicOrig(pos, distance, size) ==
    LET orig == pos + distance
    IN  IF orig > size - 1 \/ orig < 0 THEN Abs(PyMod(orig, size)) ELSE orig

\* The guard of the clipped branch: is output pixel (x, y) sourced at all.
ClippedSourced(x, y, distance_x, distance_y, width, height) ==
    /\ x > -distance_x /\ y > -distance_y
    /\ x + distance_x < width /\ y + distance_y < height

\* The coordinates the loop calls putpixel on.
ShiftWritten(image, distance_x, distance_y, cyclic) ==
    { c \in Coords(image.w, image.h) :
        cyclic \/ ClippedSourced(c[1], c[2], distance_x, distance_y,
                                 image.w, image.h) }

\* The source coordinate the loop calls getpixel on, for a written pixel.
ShiftSource(image, c, distance_x, distance_y, cyclic) ==
    IF cyclic
    THEN <<CyclicOrig(c[1], distance_x, image.w),
           CyclicOrig(c[2], distance_y, image.h)>>
    ELSE <<c[1] + distance_x, c[2] + distance_y>>

\* getpixel raises IndexError outside the image.
ShiftRaises(image, distance_x, distance_y, cyclic) ==
    \E c \in ShiftWritten(image, distance_x, distance_y, cyclic) :
        ShiftSource(image, c, distance_x, distance_y, cyclic)
            \notin Coords(image.w, image.h)

shift_image(image, distance_x, distance_y, background_color, cyclic) ==
    LET written == ShiftWritten(image, distance_x, distance_y, cyclic)
    IN  [mode |-> "RGB", w |-> image.w, h |-> image.h,
         px |-> [c \in Coords(image.w, image.h) |->
                   IF c \in written
                   THEN image.px[ShiftSource(image, c, distance_x,
                                             distance_y, cyclic)]
                   ELSE background_color]]

ShiftPalette == {<<255, 0, 0>>, <<0, 0, 255>>}

ShiftImages ==
    UNION { { [mode |-> "RGB", w |-> w, h |-> h, px |-> p] :
                p \in [Coords(w, h) -> ShiftPalette] } :
            w \in 1 .. MaxW, h \in 1 .. MaxH }

ShiftImage ==
    /\ Imported
    /\ \E image \in ShiftImages, cyclic \in BOOLEAN,
          distance_x \in -MaxShift .. MaxShift,
          distance_y \in -MaxShift .. MaxShift :
        /\ call' = [fn |-> "shift_image", image |-> image,
                    distance_x |-> distance_x, distance_y |-> distance_y,
                    background_color |-> Black, cyclic |-> cyclic]
        /\ ret' = IF ShiftRaises(image, distance_x, distance_y, cyclic)
                  THEN Raised("IndexError")
                  ELSE [raised |-> "",
                        image |-> shift_image(image, distance_x, distance_y,
                                              Black, cyclic),
                        written |-> ShiftWritten(image, distance_x,
                                                 distance_y, cyclic)]
        /\ UNCHANGED rng

(***************************************************************************)
(* mask_invert.  A mask is a sequence of float32 samples in [0, 1], here   *)
(* the samples an 8-bit image yields through pil2tensor: float32(k) / 255. *)
(***************************************************************************)
\* 255 - mask, the inversion of a mask kept in the 0..255 representation.
MaskInvertByteRange(mask) ==
    [i \in DOMAIN mask |-> F32IntMinus(255, mask[i])]

\* 1 - mask, sample by sample, in float32
mask_invert(mask) ==
    [i \in DOMAIN mask |-> F32IntMinus(1, mask[i])]

MaskSamples == {F32Div(k, 255) : k \in 0 .. 255}

Masks == UNION {[1 .. n -> MaskSamples] : n \in 1 .. MaxMaskLen}

MaskInvert ==
    /\ Imported
    /\ \E mask \in Masks :
        /\ call' = [fn |-> "mask_invert", mask |-> mask]
        /\ ret' = [raised |-> "", mask |-> mask_invert(mask)]
        /\ UNCHANGED rng

(***************************************************************************)
(* RGB_to_Hex and Hex_to_RGB.  A string is a sequence of characters.       *)
(***************************************************************************)
HexDigitsLower ==
    <<"0", "1", "2", "3", "4", "5", "6", "7",
      "8", "9", "a", "b", "c", "d", "e", "f">>

HexDigitsUpper ==
    <<"0", "1", "2", "3", "4", "5", "6", "7",
      "8", "9", "A", "B", "C", "D", "E", "F">>

\* The digits of hex(num): lower case, no leading zero, "0" for 0.
RECURSIVE PyHexDigits(_)
PyHexDigits(num) ==
    IF num < 16 THEN <<HexDigitsLower[num + 1]>>
    ELSE Append(PyHexDigits(num \div 16), HexDigitsLower[(num % 16) + 1])

\* hex(num) for num >= 0
PyHex(num) == <<"0", "x">> \o PyHexDigits(num)

\* s[-2:]
LastTwo(s) == IF Len(s) <= 2 THEN s ELSE SubSeq(s, Len(s) - 1, Len(s))

\* s.replace('x', '0')
ReplaceX(s) == [i \in DOMAIN s |-> IF s[i] = "x" THEN "0" ELSE s[i]]

\* s.upper()
Upper(s) ==
    [i \in DOMAIN s |->
        IF \E d \in 11 .. 16 : HexDigitsLower[d] = s[i]
        THEN HexDigitsUpper[CHOOSE d \in 11 .. 16 : HexDigitsLower[d] = s[i]]
        ELSE IF s[i] = "x" THEN "X" ELSE s[i]]

\* hex(num) without its '0x' prefix, upper case: no zero padding.
HexByteUnpadded(num) == Upper(PyHexDigits(num))

\* str(hex(num))[-2:].replace('x', '0').upper()
HexByte(num) == Upper(ReplaceX(LastTwo(PyHex(num))))

RGB_to_Hex(RGB) ==
    <<"#">> \o HexByte(RGB[1]) \o HexByte(RGB[2]) \o HexByte(RGB[3])

\* The value of one hexadecimal digit of either case, -1 for another character.
HexDigitValue(ch) ==
    IF \E d \in 1 .. 16 : HexDigitsLower[d] = ch \/ HexDigitsUpper[d] = ch
    THEN (CHOOSE d \in 1 .. 16 :
              HexDigitsLower[d] = ch \/ HexDigitsUpper[d] = ch) - 1
    ELSE -1

\* int(s, 16) raises ValueError on an empty string or a character that is
\* not a hexadecimal digit.
HexInvalid(s) == s = <<>> \/ \E i \in DOMAIN s : HexDigitValue(s[i]) < 0

\* int(s, 16) for a valid s
RECURSIVE HexInt(_)
HexInt(s) ==
    IF s = <<>> THEN 0
    ELSE 16 * HexInt(SubSeq(s, 1, Len(s) - 1)) + HexDigitValue(s[Len(s)])

\* s[i:j] for 0 <= i <= j (Python slice: clipped to the string)
Slice(s, i, j) == SubSeq(s, i + 1, Min(j, Len(s)))

\* rval = inhex[1:3]; gval = inhex[3:5]; bval = inhex[5:]
HexFields(inhex) ==
    <<Slice(inhex, 1, 3), Slice(inhex, 3, 5), Slice(inhex, 5, Len(inhex))>>

HexRaises(inhex) == \E i \in 1 .. 3 : HexInvalid(HexFields(inhex)[i])

Hex_to_RGB(inhex) ==
    <<HexInt(HexFields(inhex)[1]), HexInt(HexFields(inhex)[2]),
      HexInt(HexFields(inhex)[3])>>

\* Colours with one channel running over all of 0..255.
HexRest == {0, 9, 171}

HexColors ==
    UNION { {<<k, s, t>>, <<s, k, t>>, <<s, t, k>>} :
              k \in 0 .. 255, s \in HexRest, t \in HexRest }

\* Colour strings: what RGB_to_Hex writes, the same in lower case as a user
\* types them, and strings that are too short.
HexStrings ==
    {RGB_to_Hex(c) : c \in HexColors}
      \cup {<<"#", HexDigitsLower[i], HexDigitsLower[j], "0", "9", "a", "B">> :
              i \in 1 .. 16, j \in 1 .. 16}
      \cup {<<"#">>, <<"#", "f", "f">>, <<"#", "x", "0", "0", "0", "0", "0">>}

RGBToHex ==
    /\ Imported
    /\ \E RGB \in HexColors :
        /\ call' = [fn |-> "RGB_to_Hex", RGB |-> RGB]
        /\ ret' = [raised |-> "", color |-> RGB_to_Hex(RGB)]
        /\ UNCHANGED rng

HexToRGB ==
    /\ Imported
    /\ \E inhex \in HexStrings :
        /\ call' = [fn |-> "Hex_to_RGB", inhex |-> inhex]
        /\ ret' = IF HexRaises(inhex) THEN Raised("ValueError")
                  ELSE [raised |-> "", rgb |-> Hex_to_RGB(inhex)]
        /\ UNCHANGED rng

(***************************************************************************)
(* gamma_trans                                                             *)
(***************************************************************************)
\* The table without the factor 255.0: round(np.power(x / 255.0, gamma)).
GammaTableUnscaled(gamma) ==
    [x \in 0 .. 255 |-> RoundHalfEven(x^gamma, 255^gamma) % 256]

\* gamma_table[x] = np.round(np.power(x / 255.0, gamma) * 255.0).astype(uint8)
\* for an integer gamma >= 1: (x / 255)^gamma * 255 is x^gamma / 255^(gamma-1).
GammaTable(gamma) ==
    [x \in 0 .. 255 |-> RoundHalfEven(x^gamma, 255^(gamma - 1)) % 256]

\* cv2.LUT on one pixel: every channel through the table.
LUT(p, table) == <<table[p[1]], table[p[2]], table[p[3]]>>

gamma_trans(image, gamma) ==
    [image EXCEPT !.px =
        [c \in DOMAIN image.px |->
            cv22pil(LUT(pil2cv2(image.px[c]), GammaTable(gamma)))]]

Gammas == {1, 2, 3}

GammaColors ==
    {<<4 * j, (4 * j + 85) % 256, 255 - 4 * j>> : j \in 0 .. 63}

GammaTrans ==
    /\ Imported
    /\ \E width \in 1 .. MaxGammaW :
       \E image \in RowImages(width, GammaColors), gamma \in Gammas :
        /\ call' = [fn |-> "gamma_trans", image |-> image, gamma |-> gamma]
        /\ ret' = [raised |-> "", image |-> gamma_trans(image, gamma),
                   gamma_table |-> GammaTable(gamma)]
        /\ UNCHANGED rng

(***************************************************************************)
(* random_numbers.  Python's generator is modelled by a generator of eight *)
(* states: seeding sets the state from the seed alone, every randint       *)
(* advances the state and derives its value from the new state.            *)
(***************************************************************************)
\* A call that leaves the generator as it finds it.
RandomSeedIgnored(state, seed) == state

\* random.seed(seed)
RandomSeed(state, seed) == seed % 8

RandomAdvance(state) == (5 * state + 3) % 8

\* random.randint(a, b) drawn in the given state (a <= b)
RandInt(state, a, b) == a + (RandomAdvance(state) % (b - a + 1))

\* [random.randint(a, b) for _ in range(n)]: the values and the state left
RECURSIVE RandInts(_, _, _, _)
RandInts(state, n, a, b) ==
    IF n <= 0 THEN [values |-> <<>>, state |-> state]
    ELSE LET rest == RandInts(RandomAdvance(state), n - 1, a, b)
         IN  [values |-> <<RandInt(state, a, b)>> \o rest.values,
              state |-> rest.state]

\* sum(list)
RECURSIVE Sum(_)
Sum(list) == IF list = <<>> THEN 0 ELSE list[1] + Sum(Tail(list))

\* The comprehension of line 786, started right after random.seed(seed).
RandomDraws(state, total, random_range, seed) ==
    RandInts(RandomSeed(state, seed), total - 1,
             (-random_range) \div 2, random_range \div 2)

\* sum(numbers) // total raises ZeroDivisionError for total = 0.
RandomRaises(total) == total = 0

random_numbers(state, total, random_range, seed, sum_of_numbers) ==
    LET numbers == RandomDraws(state, total, random_range, seed).values
        avg == Sum(numbers) \div total
        centered == [i \in DOMAIN numbers |-> numbers[i] - avg]
    IN  Append(centered, sum_of_numbers - Sum(centered))

Sums == {-7, 0, 100}

\* One invocation in generator state rng; lists are the lists returned so far.
RandomCall(total, random_range, seed, sum_of_numbers, lists) ==
    /\ call' = [fn |-> "random_numbers", total |-> total,
                random_range |-> random_range, seed |-> seed,
                sum_of_numbers |-> sum_of_numbers]
    /\ rng' = RandomDraws(rng, total, random_range, seed).state
    /\ ret' = IF RandomRaises(total)
              THEN [raised |-> "ZeroDivisionError", lists |-> lists]
              ELSE [raised |-> "",
                    lists |-> Append(lists,
                        random_numbers(rng, total, random_range, seed,
                                       sum_of_numbers))]

RandomNumbers ==
    /\ Imported
    /\ \E total \in 0 .. MaxTotal, random_range \in 0 .. MaxRange,
          seed \in 0 .. MaxSeed, sum_of_numbers \in Sums :
        RandomCall(total, random_range, seed, sum_of_numbers, <<>>)

\* The same call once more, in the generator state the first one left.
RandomNumbersAgain ==
    /\ call.fn = "random_numbers"
    /\ Len(ret.lists) < 2 /\ Returned(ret)
    /\ RandomCall(call.total, call.random_range, call.seed,
                  call.sum_of_numbers, ret.lists)

(***************************************************************************)
(* fit_resize_image                                                        *)
(***************************************************************************)
\* Image.resize refuses a target size with a zero side
\* (ValueError: height and width must be > 0).
ResizeRaises(width, height) == width < 1 \/ height < 1

\* Image.resize((width, height), Image.NEAREST): output pixel (x, y) is the
\* input pixel under the centre of the output pixel.
ResizeNearest(image, width, height) ==
    [mode |-> image.mode, w |-> width, h |-> height,
     px |-> [c \in Coords(width, height) |->
               image.px[<<((2 * c[1] + 1) * image.w) \div (2 * width),
                          ((2 * c[2] + 1) * image.h) \div (2 * height)>>]]]

\* Image.crop((left, upper, right, lower)) for a box inside the image
Crop(image, left, upper, right, lower) ==
    [mode |-> image.mode, w |-> right - left, h |-> lower - upper,
     px |-> [c \in Coords(right - left, lower - upper) |->
               image.px[<<c[1] + left, c[2] + upper>>]]]

\* Image.paste(source, box=(left, upper)) for a source that fits the image
Paste(image, source, left, upper) ==
    [image EXCEPT !.px =
        [c \in DOMAIN image.px |->
            IF <<c[1] - left, c[2] - upper>> \in DOMAIN source.px
            THEN source.px[<<c[1] - left, c[2] - upper>>]
            ELSE image.px[c]]]

\* orig_width / orig_height > target_width / target_height
IsWider(orig_width, orig_height, target_width, target_height) ==
    orig_width * target_height > target_width * orig_height

\* (fit_width, fit_height) of the letterbox branch; int(a / b * c) is
\* floor(a * c / b) for the sizes of the model.
LetterboxFit(orig_width, orig_height, target_width, target_height) ==
    IF IsWider(orig_width, orig_height, target_width, target_height)
    THEN <<target_width, (target_width * orig_height) \div orig_width>>
    ELSE <<(target_height * orig_width) \div orig_height, target_height>>

\* The box of the crop branch.
CropBox(orig_width, orig_height, target_width, target_height) ==
    IF IsWider(orig_width, orig_height, target_width, target_height)
    THEN LET fit_width == (orig_height * target_width) \div target_height
         IN  <<(orig_width - fit_width) \div 2, 0,
               (orig_width - fit_width) \div 2 + fit_width, orig_height>>
    ELSE LET fit_height == (orig_width * target_height) \div target_width
         IN  <<0, (orig_height - fit_height) \div 2,
               orig_width, (orig_height - fit_height) \div 2 + fit_height>>

FitRaises(image, target_width, target_height, fit) ==
    IF fit = "letterbox"
    THEN LET size == LetterboxFit(image.w, image.h, target_width, target_height)
         IN  ResizeRaises(size[1], size[2])
    ELSE ResizeRaises(target_width, target_height)

\* fit_image of the letterbox branch
LetterboxFitImage(image, target_width, target_height) ==
    LET size == LetterboxFit(image.w, image.h, target_width, target_height)
    IN  ResizeNearest(image, size[1], size[2])

fit_resize_image(image, target_width, target_height, fit) ==
    IF fit = "letterbox"
    THEN LET fit_image == LetterboxFitImage(image, target_width, target_height)
         IN  Paste(NewImage("RGB", target_width, target_height, Black),
                   fit_image, (target_width - fit_image.w) \div 2,
                   (target_height - fit_image.h) \div 2)
    ELSE IF fit = "crop"
    THEN LET box == CropBox(image.w, image.h, target_width, target_height)
         IN  ResizeNearest(Crop(image, box[1], box[2], box[3], box[4]),
                           target_width, target_height)
    ELSE ResizeNearest(image, target_width, target_height)

\* A source image of a given size, every pixel a colour of its own and none
\* of them black.
FitSource(width, height) ==
    [mode |-> "RGB", w |-> width, h |-> height,
     px |-> [c \in Coords(width, height) |-> <<c[1] + 1, c[2] + 1, 255>>]]

Fits == {"letterbox", "crop", "fill"}

\* (orig_width, orig_height, target_width, target_height): every size up to
\* MaxDim, and the 200x100 source with a 100x100 target.
FitSizes ==
    ((1 .. MaxDim) \X (1 .. MaxDim) \X (1 .. MaxDim) \X (1 .. MaxDim))
        \cup {<<200, 100, 100, 100>>}

\* The crop branch is modelled where its crop box is not empty.
FitModelled(size, fit) ==
    fit = "crop" =>
        LET box == CropBox(size[1], size[2], size[3], size[4])
        IN  box[3] > box[1] /\ box[4] > box[2]

FitResizeImage ==
    /\ Imported
    /\ \E size \in FitSizes, fit \in Fits :
        /\ FitModelled(size, fit)
        /\ LET image == FitSource(size[1], size[2]) IN
            /\ call' = [fn |-> "fit_resize_image", image |-> image,
                        target_width |-> size[3], target_height |-> size[4],
                        fit |-> fit, resize_sampler |-> "NEAREST"]
            /\ ret' = IF FitRaises(image, size[3], size[4], fit)
                      THEN Raised("ValueError")
                      ELSE [raised |-> "",
                            image |-> fit_resize_image(image, size[3],
                                                       size[4], fit)]
        /\ UNCHANGED rng

(***************************************************************************)
(* pil2tensor, tensor2pil and __rotate_expand.  A tensor is [shape, data]: *)
(* data holds the float32 elements in row-major order.                     *)
(***************************************************************************)
\* np.array(image): shape (h, w, 3) for mode RGB, (h, w) for mode L, as
\* 8-bit samples in row-major order.
ImageArray(image) ==
    IF image.mode = "RGB"
    THEN [shape |-> <<image.h, image.w, 3>>,
          data |-> [k \in 1 .. image.h * image.w * 3 |->
                      image.px[<<((k - 1) \div 3) % image.w,
                                 (k - 1) \div (3 * image.w)>>][((k - 1) % 3) + 1]]]
    ELSE [shape |-> <<image.h, image.w>>,
          data |-> [k \in 1 .. image.h * image.w |->
                      image.px[<<(k - 1) % image.w, (k - 1) \div image.w>>]]]

\* np.array(image).astype(np.float32) / 255.0, then unsqueeze(0)
pil2tensor(image) ==
    LET arr == ImageArray(image)
    IN  [shape |-> <<1>> \o arr.shape,
         data |-> [k \in DOMAIN arr.data |-> F32Div(arr.data[k], 255)]]

\* numpy squeeze(): every axis of length 1 is dropped.
IsNotOne(d) == d # 1

Squeeze(shape) == SelectSeq(shape, IsNotOne)

\* np.clip(255.0 * x, 0, 255).astype(np.uint8) on one element in [0, 1]
ToByte(f) == Min(255, F32Trunc(F32MulInt(f, 255)))

\* Image.fromarray reads shape[1] and shape[0] for the size: IndexError for
\* an array without axes.  (The arrays met here have at most three axes,
\* the third of length 3.)
FromArrayRaises(shape) == Len(shape) = 0

\* Image.fromarray(arr) of an 8-bit array: three axes (h, w, 3) give mode
\* RGB, two axes (h, w) mode L, one axis (n) mode L of size (1, n).
FromArray(shape, data) ==
    IF Len(shape) = 3
    THEN [mode |-> "RGB", w |-> shape[2], h |-> shape[1],
          px |-> [c \in Coords(shape[2], shape[1]) |->
                    <<data[(c[2] * shape[2] + c[1]) * 3 + 1],
                      data[(c[2] * shape[2] + c[1]) * 3 + 2],
                      data[(c[2] * shape[2] + c[1]) * 3 + 3]>>]]
    ELSE IF Len(shape) = 2
    THEN [mode |-> "L", w |-> shape[2], h |-> shape[1],
          px |-> [c \in Coords(shape[2], shape[1]) |->
                    data[c[2] * shape[2] + c[1] + 1]]]
    ELSE [mode |-> "L", w |-> 1, h |-> shape[1],
          px |-> [c \in Coords(1, shape[1]) |-> data[c[2] + 1]]]

tensor2pil(t_image) ==
    FromArray(Squeeze(t_image.shape),
              [k \in DOMAIN t_image.data |-> ToByte(t_image.data[k])])

\* Image.convert('RGB') of a mode L or RGB image
ConvertRGB(image) ==
    IF image.mode = "RGB" THEN image
    ELSE [image EXCEPT !.mode = "RGB",
                       !.px = [c \in DOMAIN image.px |->
                                 <<image.px[c], image.px[c], image.px[c]>>]]

\* Image.rotate(angle, sampler, expand=True) for a multiple of 90 degrees:
\* PIL copies for angle % 360 = 0 and transposes for 90, 180 and 270
\* (counterclockwise), whatever the sampler.
Rotate(image, angle) ==
    LET a == angle % 360
        w == image.w
        h == image.h
    IN  IF a = 0 THEN image
        ELSE IF a = 180
        THEN [image EXCEPT !.px = [c \in Coords(w, h) |->
                                     image.px[<<w - 1 - c[1], h - 1 - c[2]>>]]]
        ELSE IF a = 90
        THEN [mode |-> image.mode, w |-> h, h |-> w,
              px |-> [c \in Coords(h, w) |-> image.px[<<w - 1 - c[2], c[1]>>]]]
        ELSE [mode |-> image.mode, w |-> h, h |-> w,
              px |-> [c \in Coords(h, w) |-> image.px[<<c[2], h - 1 - c[1]>>]]]

\* rotate_tensor(tensor) with the NEAREST samplers; width and height are
\* those of the tensor __rotate_expand made of its argument.
rotate_tensor(tensor, width, height, angle, SSAA) ==
    LET img == tensor2pil(tensor)
    IN  IF SSAA > 1
        THEN LET img_us_scaled ==
                     ResizeNearest(img, width * SSAA, height * SSAA)
                 img_rotated == Rotate(img_us_scaled, angle)
                 img_down_scaled ==
                     ResizeNearest(img_rotated, img_rotated.w \div SSAA,
                                   img_rotated.h \div SSAA)
             IN  pil2tensor(img_down_scaled)
        ELSE pil2tensor(Rotate(img, angle))

\* The PIL steps __rotate_expand performs.
RotateSteps(angle, SSAA) ==
    IF angle = 0 \/ angle = 360 THEN <<>>
    ELSE IF SSAA > 1 THEN <<"resize", "rotate", "resize">>
    ELSE <<"rotate">>

\* images[0] and torch.stack of a batch of one
Unbatch(t) == [t EXCEPT !.shape = Tail(t.shape)]

Stack(t) == [t EXCEPT !.shape = <<1>> \o t.shape]

RotateRaises(image, angle, SSAA) ==
    IF angle = 0 \/ angle = 360
    THEN FromArrayRaises(Squeeze(pil2tensor(image).shape))
    ELSE \/ FromArrayRaises(Squeeze(Unbatch(pil2tensor(image)).shape))
         \/ FromArrayRaises(Squeeze(Stack(
                rotate_tensor(Unbatch(pil2tensor(image)), image.w, image.h,
                              angle, SSAA)).shape))

rotate_expand(image, angle, SSAA) ==
    LET images == pil2tensor(image)
    IN  IF angle = 0 \/ angle = 360
        THEN tensor2pil(images)
        ELSE ConvertRGB(tensor2pil(Stack(
                 rotate_tensor(Unbatch(images), image.w, image.h,
                               angle, SSAA))))

RotatePalette == {<<255, 0, 0>>, <<3, 128, 254>>}

RotateImages ==
    UNION { { [mode |-> "RGB", w |-> w, h |-> h, px |-> p] :
                p \in [Coords(w, h) -> RotatePalette] } :
            w \in 1 .. MaxRotW, h \in 1 .. MaxRotH }

Angles == {0, 360, 90, 180, 270, 720}

Methods ==
    {"lanczos", "bicubic", "hamming", "bilinear", "box", "nearest"}

\* The if-chain over method: <<resize_sampler, rotate_sampler>>
Samplers(method) ==
    CASE method = "bicubic" -> <<"BICUBIC", "BICUBIC">>
      [] method = "hamming" -> <<"HAMMING", "BILINEAR">>
      [] method = "bilinear" -> <<"BILINEAR", "BILINEAR">>
      [] method = "box" -> <<"BOX", "NEAREST">>
      [] method = "nearest" -> <<"NEAREST", "NEAREST">>
      [] OTHER -> <<"LANCZOS", "BICUBIC">>

\* Above SSAA 1 a turn resamples: it is modelled for the NEAREST resize
\* sampler.  (A turn by a multiple of 90 degrees does not use its sampler.)
RotateModelled(angle, SSAA, method) ==
    ~(angle \notin {0, 360} /\ SSAA > 1 /\ Samplers(method)[1] # "NEAREST")

RotateExpand ==
    /\ Imported
    /\ \E image \in RotateImages, angle \in Angles, SSAA \in 0 .. MaxSSAA,
          method \in Methods :
        /\ RotateModelled(angle, SSAA, method)
        /\ call' = [fn |-> "__rotate_expand", image |-> image,
                    angle |-> angle, SSAA |-> SSAA, method |-> method]
        /\ ret' = IF RotateRaises(image, angle, SSAA)
                  THEN Raised("IndexError")
                  ELSE [raised |-> "",
                        image |-> rotate_expand(image, angle, SSAA),
                        steps |-> RotateSteps(angle, SSAA)]
        /\ UNCHANGED rng

(***************************************************************************)
(* lut_apply.  A line of a LUT file (without its newline) is a sequence of *)
(* pieces: a number (a decimal literal, here 0, 0.5 or 1, kept as a count  *)
(* of halves), a space, a tab, a word (letters) or a symbol (a character   *)
(* that is neither a letter nor a digit nor white space, as '#').          *)
(***************************************************************************)
Num(n) == [kind |-> "number", halves |-> n]

Space == [kind |-> "space", halves |-> 0]

Tab == [kind |-> "tab", halves |-> 0]

Word == [kind |-> "word", halves |-> 0]

Symbol == [kind |-> "symbol", halves |-> 0]

\* re.search(r'[a-zA-Z]', string)
has_letters(string) == \E i \in DOMAIN string : string[i].kind = "word"

\* str.split(' '): the pieces between single spaces; n spaces give n + 1
\* fields, empty ones included.
RECURSIVE SplitSpace(_)
SplitSpace(line) ==
    IF \A i \in DOMAIN line : line[i].kind # "space" THEN <<line>>
    ELSE LET k == CHOOSE i \in DOMAIN line :
                    /\ line[i].kind = "space"
                    /\ \A j \in 1 .. i - 1 : line[j].kind # "space"
         IN  <<SubSeq(line, 1, k - 1)>>
                 \o SplitSpace(SubSeq(line, k + 1, Len(line)))

\* float(s) skips white space around the literal.
RECURSIVE StripTabs(_)
StripTabs(field) ==
    IF field # <<>> /\ field[1].kind = "tab" THEN StripTabs(Tail(field))
    ELSE IF field # <<>> /\ field[Len(field)].kind = "tab"
    THEN StripTabs(SubSeq(field, 1, Len(field) - 1))
    ELSE field

\* float(s) raises ValueError unless s is one literal.
FloatRaises(field) ==
    ~(Len(StripTabs(field)) = 1 /\ StripTabs(field)[1].kind = "number")

\* float(s) * 255 as a fraction
FloatTimes255(field) == Rat(StripTabs(field)[1].halves * 255, 2)

\* The exception lines 571-577 raise on a line without letters: IndexError
\* for a missing li[i], ValueError from float(li[i]); "" for none.
LutLineError(line) ==
    LET li == SplitSpace(line)
        bad == {i \in 1 .. 3 : i > Len(li) \/ FloatRaises(li[i])}
    IN  IF bad = {} THEN ""
        ELSE LET first == CHOOSE i \in bad : \A j \in bad : i <= j
             IN  IF first > Len(li) THEN "IndexError" ELSE "ValueError"

\* The entry lines 571-578 append for a line without letters.
LutLineEntry(line) ==
    LET li == SplitSpace(line)
    IN  <<FloatTimes255(li[1]), FloatTimes255(li[2]), FloatTimes255(li[3])>>

\* The exception of the loading loop: that of the first line that raises.
RECURSIVE LutLoadError(_)
LutLoadError(lut) ==
    IF lut = <<>> THEN ""
    ELSE IF ~has_letters(lut[1]) /\ LutLineError(lut[1]) # ""
    THEN LutLineError(lut[1])
    ELSE LutLoadError(Tail(lut))

\* lut_cube after the loading loop (when no line raises)
RECURSIVE LutLoad(_)
LutLoad(lut) ==
    IF lut = <<>> THEN <<>>
    ELSE IF has_letters(lut[1]) THEN LutLoad(Tail(lut))
    ELSE <<LutLineEntry(lut[1])>> \o LutLoad(Tail(lut))

\* round(channel / 255 * 32)
LutPos(channel) == RoundHalfEven(32 * channel, 255)

\* index = R_pos + G_pos * 33 + B_pos * 33 * 33
LutIndex(pixel) ==
    LutPos(pixel[1]) + LutPos(pixel[2]) * 33 + LutPos(pixel[3]) * 33 * 33

\* A lookup that wraps around the table instead of raising.
LutLookupWrapping(lut_cube, index) ==
    IF lut_cube = <<>> THEN [raised |-> "IndexError"]
    ELSE [raised |-> "", entry |-> lut_cube[(index % Len(lut_cube)) + 1]]

\* lut_cube[index]: a Python list raises IndexError outside
\* -len .. len - 1 and counts a negative index from the end.
LutLookup(lut_cube, index) ==
    IF index >= Len(lut_cube) \/ index < -Len(lut_cube)
    THEN [raised |-> "IndexError"]
    ELSE [raised |-> "",
          entry |-> IF index >= 0 THEN lut_cube[index + 1]
                    ELSE lut_cube[Len(lut_cube) + index + 1]]

\* new_pixel of one pixel
LutNewPixel(lut_cube, pixel) ==
    LET entry == LutLookup(lut_cube, LutIndex(pixel)).entry
    IN  <<RoundHalfEven(entry[1].n, entry[1].d),
          RoundHalfEven(entry[2].n, entry[2].d),
          RoundHalfEven(entry[3].n, entry[3].d)>>

\* The exception of the call, "" for none.
LutApplyError(image, lut) ==
    IF LutLoadError(lut) # "" THEN LutLoadError(lut)
    ELSE IF \E c \in Coords(image.w, image.h) :
              ~Returned(LutLookup(LutLoad(lut), LutIndex(image.px[c])))
    THEN "IndexError"
    ELSE ""

lut_apply(image, lut) ==
    [image EXCEPT !.px =
        [c \in DOMAIN image.px |-> LutNewPixel(LutLoad(lut), image.px[c])]]

\* Pixels with one channel running over all of 0..255.
LutRest == {0, 255}

LutColors ==
    UNION { {<<k, s, t>>, <<s, k, t>>, <<s, t, k>>} :
              k \in 0 .. 255, s \in LutRest, t \in LutRest }

\* Images that use the first three entries of a table.
LutFewImages ==
    RowImages(1, {<<0, 0, 0>>, <<8, 0, 0>>})
        \cup {[mode |-> "RGB", w |-> 2, h |-> 1,
               px |-> [c \in Coords(2, 1) |-> <<16 * c[1], 0, 0>>]]}

LutNumbers == {Num(0), Num(1), Num(2)}

\* A data line with its three numbers one space apart.
DataLine(a, b, c) == <<a, Space, b, Space, c>>

\* Well-formed files: a header and up to MaxLutLines data lines.
LutPlainFiles ==
    { <<<<Word, Space, Num(2)>>>> \o [i \in 1 .. n |-> DataLine(Num(i % 3), Num(2), Num(0))] :
        n \in 0 .. MaxLutLines }

\* Lines as LUT files have them: headers, data lines, data lines with two
\* spaces, with tabs, with a space before or after, a blank line, a line
\* of symbols and a line of two numbers.
LutLines ==
    { <<Word>>, <<Word, Space, Num(2)>>, <<Symbol, Space, Word>> }
      \cup { DataLine(a, Num(1), Num(2)) : a \in LutNumbers }
      \cup { <<Num(0), Space, Space, Num(1), Space, Num(2)>>,
             <<Num(0), Tab, Num(1), Tab, Num(2)>>,
             <<Num(0), Space, Tab, Num(1), Space, Num(2), Tab>>,
             <<Space, Num(0), Space, Num(1), Space, Num(2)>>,
             <<Num(0), Space, Num(1), Space, Num(2), Space>>,
             <<>>, <<Symbol>>, <<Num(0), Space, Num(1)>> }

LutFiles == UNION {[1 .. n -> LutLines] : n \in 0 .. MaxLutLines}

\* (image, file): every pixel value with the well-formed files, every file
\* with a few images.
LutInputs ==
    (RowImages(1, LutColors) \X LutPlainFiles)
        \cup (LutFewImages \X LutFiles)

LutApply ==
    /\ Imported
    /\ \E input \in LutInputs :
        /\ call' = [fn |-> "lut_apply", image |-> input[1],
                    lut_file |-> input[2]]
        /\ ret' = IF LutApplyError(input[1], input[2]) # ""
                  THEN Raised(LutApplyError(input[1], input[2]))
                  ELSE [raised |-> "",
                        image |-> lut_apply(input[1], input[2])]
        /\ UNCHANGED rng

(***************************************************************************)
(* The module-level block that reads resource_dir.ini (lines 809-830).  It *)
(* runs once, when the module is imported; no helper of this module reads  *)
(* what it leaves, so its outcome is recorded in ret like a helper's.      *)
(* A line of the file is [key, path]: key is "LUT_dir" or "FONT_dir" for a *)
(* line that starts with 'LUT_dir=' or 'FONT_dir=' and "" for another      *)
(* line; path is the text after the first '=', stripped.                   *)
(***************************************************************************)
DefaultLutDir == "install/lut"

DefaultFontDir == "install/font"

\* The paths os.path.exists finds.
ExistingPaths == {"/data/lut", "/data/font"}

PathExists(path) == path \in ExistingPaths

\* The FONT_dir branch assigning default_lut_dir.
IniLineFontSetsLut(dirs, line) ==
    IF line.key = "LUT_dir" \/ line.key = "FONT_dir"
    THEN IF PathExists(line.path)
         THEN [dirs EXCEPT !.lut = line.path]
         ELSE [dirs EXCEPT !.log = Append(@, line.key)]
    ELSE dirs

\* The body of the loop over the lines: dirs is [lut, font, log], log the
\* sequence of messages logged so far (the key each one names).
IniLine(dirs, line) ==
    IF line.key = "LUT_dir"
    THEN IF PathExists(line.path)
         THEN [dirs EXCEPT !.lut = line.path]
         ELSE [dirs EXCEPT !.log = Append(@, "LUT_dir")]
    ELSE IF line.key = "FONT_dir"
    THEN IF PathExists(line.path)
         THEN [dirs EXCEPT !.font = line.path]
         ELSE [dirs EXCEPT !.log = Append(@, "FONT_dir")]
    ELSE dirs

RECURSIVE IniLines(_, _)
IniLines(dirs, ini) ==
    IF ini = <<>> THEN dirs
    ELSE IniLines(IniLine(dirs, ini[1]), Tail(ini))

\* The try block: open or readlines raising is caught and logged.
load_ini(file) ==
    LET defaults == [lut |-> DefaultLutDir, font |-> DefaultFontDir,
                     log |-> <<>>]
    IN  IF file.state # "readable"
        THEN [defaults EXCEPT !.log = <<file.state>>]
        ELSE IniLines(defaults, file.lines)

IniPaths == {"/data/lut", "/data/font", "/gone", ""}

IniFileLines ==
    {[key |-> k, path |-> p] : k \in {"LUT_dir", "FONT_dir"}, p \in IniPaths}
        \cup {[key |-> "", path |-> "/data/lut"]}

\* The ini file: missing, unreadable, or up to MaxIniLines lines.
IniFiles ==
    {[state |-> s, lines |-> <<>>] : s \in {"missing", "unreadable"}}
        \cup UNION { {[state |-> "readable", lines |-> l] :
                        l \in [1 .. n -> IniFileLines]} :
                     n \in 0 .. MaxIniLines }

LoadIni ==
    /\ Imported
    /\ \E file \in IniFiles :
        /\ call' = [fn |-> "load_ini", file |-> file]
        /\ ret' = [raised |-> "", dirs |-> load_ini(file)]
        /\ UNCHANGED rng

(***************************************************************************)
(* get_image_color_tone.  The image is given by what image.getcolors       *)
(* returns: a sequence of [count, color] with distinct colours, in the     *)
(* order PIL lists them.                                                   *)
(***************************************************************************)
Max3(p) == Max(p[1], Max(p[2], p[3]))

Min3(p) == Min(p[1], Min(p[2], p[3]))

\* min(abs(r * 2104 + g * 4130 + b * 802 + 4096 + 131072) >> 13, 235)
Luma(p) ==
    Min(Abs(p[1] * 2104 + p[2] * 4130 + p[3] * 802 + 4096 + 131072) \div 8192,
        235)

\* y = (y - 16.0) / (235 - 16); y > 0.9
NearWhite(p) == 10 * (Luma(p) - 16) > 9 * (235 - 16)

\* colorsys.rgb_to_hsv(r / 255.0, g / 255.0, b / 255.0)[1]:
\* (maxc - minc) / maxc, and 0 for maxc = minc
Saturation(p) ==
    IF Max3(p) = Min3(p) THEN Rat(0, 1) ELSE Rat(Max3(p) - Min3(p), Max3(p))

\* score = (saturation + 0.1) * count
ToneScore(count, p) ==
    Rat(count * (10 * Saturation(p).n + Saturation(p).d), 10 * Saturation(p).d)

\* One pass of the loop body; local is [max_score, dominant_color,
\* ret_color], <<>> standing for None and for a name not yet bound.
ToneStep(local, entry) ==
    IF NearWhite(entry.color) THEN local
    ELSE LET score == ToneScore(entry.count, entry.color)
             better == RatLess(local.max_score, score)
             dominant == IF better THEN entry.color ELSE local.dominant_color
         IN  [max_score |-> IF better THEN score ELSE local.max_score,
              dominant_color |-> dominant,
              ret_color |-> RGB_to_Hex(dominant)]

RECURSIVE ToneLoop(_, _)
ToneLoop(local, colors) ==
    IF colors = <<>> THEN local
    ELSE ToneLoop(ToneStep(local, colors[1]), Tail(colors))

\* The locals at the return statement.
ToneLocals(colors) ==
    ToneLoop([max_score |-> Rat(1, 10000), dominant_color |-> <<>>,
              ret_color |-> <<>>], colors)

\* return ret_color raises UnboundLocalError when no pass assigned it.
ToneRaises(colors) == ToneLocals(colors).ret_color = <<>>

get_image_color_tone(colors) == ToneLocals(colors).ret_color

TonePalette ==
    {<<255, 255, 255>>, <<240, 240, 240>>, <<255, 0, 0>>, <<0, 0, 255>>,
     <<128, 128, 128>>, <<200, 100, 100>>, <<0, 0, 0>>}

\* getcolors of an image of up to MaxToneColors colours, each on up to
\* MaxToneCount pixels.
ToneHistograms ==
    UNION { { h \in [1 .. n -> [count : 1 .. MaxToneCount, color : TonePalette]] :
                \A i, j \in 1 .. n : i # j => h[i].color # h[j].color } :
            n \in 1 .. MaxToneColors }

GetImageColorTone ==
    /\ Imported
    /\ \E colors \in ToneHistograms :
        /\ call' = [fn |-> "get_image_color_tone", colors |-> colors]
        /\ ret' = IF ToneRaises(colors) THEN Raised("UnboundLocalError")
                  ELSE [raised |-> "", color |-> get_image_color_tone(colors)]
        /\ UNCHANGED rng

(***************************************************************************)
(* get_image_bright_average, on images of mode L (convert('L') copies      *)
(* them): px maps a coordinate to a value in 0 .. 255.                     *)
(***************************************************************************)
\* The loops of lines 478-483: position i counts the pixels in the order
\* y outer, x inner; local is [total_bright, pixels].
RECURSIVE BrightLoop(_, _, _)
BrightLoop(image, i, local) ==
    IF i = image.w * image.h THEN local
    ELSE LET b == image.px[<<i % image.w, i \div image.w>>]
         IN  BrightLoop(image, i + 1,
                 IF b > 1
                 THEN [total_bright |-> local.total_bright + b,
                       pixels |-> local.pixels + 1]
                 ELSE local)

BrightLocals(image) == BrightLoop(image, 0, [total_bright |-> 0, pixels |-> 0])

\* total_bright / pixels raises ZeroDivisionError for pixels = 0.
BrightRaises(image) == BrightLocals(image).pixels = 0

\* int(total_bright / pixels): the quotient is not negative, so int
\* truncates it to its floor.
get_image_bright_average(image) ==
    BrightLocals(image).total_bright \div BrightLocals(image).pixels

BrightValues == {0, 1, 2, 255}

\* The sizes of the images of up to MaxBrightPixels pixels.
BrightSizes ==
    {s \in (1 .. MaxBrightPixels) \X (1 .. MaxBrightPixels) :
        s[1] * s[2] <= MaxBrightPixels}

BrightImages ==
    UNION { { [mode |-> "L", w |-> s[1], h |-> s[2], px |-> p] :
                p \in [Coords(s[1], s[2]) -> BrightValues] } :
            s \in BrightSizes }

GetImageBrightAverage ==
    /\ Imported
    /\ \E image \in BrightImages :
        /\ call' = [fn |-> "get_image_bright_average", image |-> image]
        /\ ret' = IF BrightRaises(image) THEN Raised("ZeroDivisionError")
                  ELSE [raised |-> "",
                        bright |-> get_image_bright_average(image)]
        /\ UNCHANGED rng

(***************************************************************************)
(* max_inscribed_rect.  A contour is a sequence of points <<x, y>>; a      *)
(* candidate is [p1, p2, area].  cv2.findContours is a library call: its   *)
(* first contour is taken as any sequence of border points, which are      *)
(* non-zero pixels of the binary image.                                    *)
(***************************************************************************)
\* cv2.cvtColor(img, cv2.COLOR_BGR2GRAY) on one pixel <<B, G, R>>
BGR2GRAY(p) == (p[1] * 1868 + p[2] * 9617 + p[3] * 4899 + 8192) \div 16384

\* cv2.threshold(img_gray, 127, 255, cv2.THRESH_BINARY) on one sample
ThresholdBinary(v) == IF v > 127 THEN 255 ELSE 0

\* img_bin of line 688 at coordinate c of image
ImgBin(image, c) == ThresholdBinary(BGR2GRAY(pil2cv2(image.px[c])))

\* any(img[y, x]) == 0: no channel of the colour pixel is non-zero
PixelIsZero(image, x, y) ==
    \A k \in 1 .. 3 : pil2cv2(image.px[<<x, y>>])[k] = 0

\* The body of the two loops of lines 691-696 for the pair (i, j).
RectOfPair(contour, i, j) ==
    [p1 |-> contour[i], p2 |-> contour[j],
     area |-> Abs(contour[j][2] - contour[i][2])
              * Abs(contour[j][1] - contour[i][1])]

\* rect after the loops: the pairs in the order i outer, j inner.
RectList(contour) ==
    [k \in 1 .. Len(contour) * Len(contour) |->
        RectOfPair(contour, ((k - 1) \div Len(contour)) + 1,
                            ((k - 1) % Len(contour)) + 1)]

\* A sort that puts the smaller areas first.
RECURSIVE InsertByAreaAscending(_, _)
InsertByAreaAscending(sorted, r) ==
    IF sorted = <<>> THEN <<r>>
    ELSE IF sorted[1].area <= r.area
         THEN <<sorted[1]>> \o InsertByAreaAscending(Tail(sorted), r)
         ELSE <<r>> \o sorted

\* sorted(..., reverse=True) is stable: an entry stays behind the earlier
\* entries of the same area.
RECURSIVE InsertByArea(_, _)
InsertByArea(sorted, r) ==
    IF sorted = <<>> THEN <<r>>
    ELSE IF sorted[1].area >= r.area
         THEN <<sorted[1]>> \o InsertByArea(Tail(sorted), r)
         ELSE <<r>> \o sorted

RECURSIVE SortedByArea(_, _)
SortedByArea(rect, done) ==
    IF rect = <<>> THEN done
    ELSE SortedByArea(Tail(rect), InsertByArea(done, rect[1]))

\* all_rect of line 697
AllRect(contour) == SortedByArea(RectList(contour), <<>>)

\* The loop of lines 708-711 from x on.
RECURSIVE ValidRows(_, _, _)
ValidRows(image, r, x) ==
    IF ~(x < Max(r.p1[1], r.p2[1]) + 1) THEN TRUE
    ELSE IF ~(~PixelIsZero(image, x, r.p1[2]) /\ ~PixelIsZero(image, x, r.p2[2]))
         THEN FALSE
         ELSE ValidRows(image, r, x + 1)

\* The loop of lines 713-716 from y on.
RECURSIVE ValidColumns(_, _, _)
ValidColumns(image, r, y) ==
    IF ~(y < Max(r.p1[2], r.p2[2]) + 1) THEN TRUE
    ELSE IF ~(~PixelIsZero(image, r.p1[1], y) /\ ~PixelIsZero(image, r.p2[1], y))
         THEN FALSE
         ELSE ValidColumns(image, r, y + 1)

\* valid_rect at line 717
ValidRect(image, r) ==
    /\ ValidRows(image, r, Min(r.p1[1], r.p2[1]))
    /\ ValidColumns(image, r, Min(r.p1[2], r.p2[2]))

\* The while loop of line 702: the index of the candidate whose corners
\* x1, y1, x2, y2 hold when the loop ends.
RECURSIVE LastExamined(_, _, _)
LastExamined(image, all_rect, index_rect) ==
    IF ValidRect(image, all_rect[index_rect]) \/ index_rect = Len(all_rect)
    THEN index_rect
    ELSE LastExamined(image, all_rect, index_rect + 1)

\* Lines 722-723.
Normalized(r) ==
    <<Min(r.p1[1], r.p2[1]), Min(r.p1[2], r.p2[2]),
      Max(r.p1[1], r.p2[1]) - Min(r.p1[1], r.p2[1]),
      Max(r.p1[2], r.p2[2]) - Min(r.p1[2], r.p2[2])>>

\* The locals at the return statement, for the first contour found.
max_inscribed_rect(image, contour) ==
    LET all_rect == AllRect(contour)
        index_rect == LastExamined(image, all_rect, 1)
    IN  [raised |-> "", all_rect |-> all_rect, index_rect |-> index_rect,
         rect |-> Normalized(all_rect[index_rect])]

White == <<255, 255, 255>>

\* A pixel that is not zero and below the threshold.
DarkGrey == <<100, 100, 100>>

\* Masks of black and white pixels, and the same with a grey top-left one.
RectMasks ==
    UNION { { [mode |-> "RGB", w |-> w, h |-> h, px |-> p] :
                p \in { q \in [Coords(w, h) -> {Black, White, DarkGrey}] :
                          \A c \in Coords(w, h) :
                              q[c] = DarkGrey => c = <<0, 0>> } } :
            w \in 1 .. MaxRectW, h \in 1 .. MaxRectH }

\* The points a contour can hold: the non-zero pixels of img_bin.
BorderPoints(image) ==
    {c \in Coords(image.w, image.h) : ImgBin(image, c) # 0}

\* What contours[0] can be; no contour at all for a mask without such points.
FirstContours(image) ==
    UNION {[1 .. n -> BorderPoints(image)] : n \in 1 .. MaxContour}

MaxInscribedRect ==
    /\ Imported
    /\ \E image \in RectMasks :
        IF BorderPoints(image) = {}
        THEN /\ call' = [fn |-> "max_inscribed_rect", image |-> image,
                         contour |-> <<>>]
             /\ ret' = Raised("IndexError")
             /\ UNCHANGED rng
        ELSE \E contour \in FirstContours(image) :
             /\ call' = [fn |-> "max_inscribed_rect", image |-> image,
                         contour |-> contour]
             /\ ret' = max_inscribed_rect(image, contour)
             /\ UNCHANGED rng

(***************************************************************************)
(* image_rotate_extend_with_alpha and RGB2RGBA.  An argument that can be   *)
(* None is <<>> for None and <<v>> for the value v.                        *)
(***************************************************************************)
None == <<>>

Some(v) == <<v>>

\* Image.convert('L') of a mode L or RGB image (ITU-R 601-2 luma)
ConvertL(image) ==
    IF image.mode = "L" THEN image
    ELSE [image EXCEPT !.mode = "L",
                       !.px = [c \in DOMAIN image.px |->
                                 (image.px[c][1] * 19595 + image.px[c][2] * 38470
                                  + image.px[c][3] * 7471 + 32768) \div 65536]]

\* Image.merge refuses bands of different sizes with ValueError.
MergeRaises(image, mask) == image.w # mask.w \/ image.h # mask.h

\* RGB2RGBA(image, mask)
RGB2RGBA(image, mask) ==
    [mode |-> "RGBA", w |-> image.w, h |-> image.h,
     px |-> [c \in DOMAIN image.px |->
               ConvertRGB(image).px[c] \o <<ConvertL(mask).px[c]>>]]

\* __rotate_expand(image, None, SSAA, method): None == 0.0 is false, so the
\* tensor is turned; rotate_tensor reaches img.rotate(None, ...), which
\* raises TypeError on angle % 360.0.
RotateNoneRaises(image) ==
    IF FromArrayRaises(Squeeze(Unbatch(pil2tensor(image)).shape))
    THEN "IndexError" ELSE "TypeError"

\* The exception image_rotate_extend_with_alpha ends in, "" for none.
RotateAlphaRaises(image, angle, alpha, SSAA) ==
    IF angle = None THEN RotateNoneRaises(ConvertRGB(image))
    ELSE IF RotateRaises(ConvertRGB(image), angle[1], SSAA) THEN "IndexError"
    ELSE IF alpha = None THEN "AttributeError"
    ELSE IF RotateRaises(ConvertRGB(alpha[1]), angle[1], SSAA) THEN "IndexError"
    ELSE IF MergeRaises(rotate_expand(ConvertRGB(image), angle[1], SSAA),
                        rotate_expand(ConvertRGB(alpha[1]), angle[1], SSAA))
         THEN "ValueError"
    ELSE ""

\* The tuple returned when no exception ends the call.
image_rotate_extend_with_alpha(image, angle, alpha, SSAA) ==
    LET _image == rotate_expand(ConvertRGB(image), angle[1], SSAA)
        _alpha == rotate_expand(ConvertRGB(alpha[1]), angle[1], SSAA)
    IN  [raised |-> "", image |-> _image, alpha |-> _alpha,
         ret_image |-> RGB2RGBA(_image, _alpha)]

\* Images with one red corner.
AlphaRotateImages ==
    {image \in RotateImages :
        \A c \in Coords(image.w, image.h) :
            (image.px[c] = <<255, 0, 0>>) <=> (c = <<0, 0>>)}

\* The alpha argument for an image: None, an opaque mask of its size, one
\* with a single opaque corner, and an opaque mask one pixel wider.
AlphaArguments(image) ==
    {None,
     Some(NewImage("L", image.w, image.h, 255)),
     Some([mode |-> "L", w |-> image.w, h |-> image.h,
           px |-> [c \in Coords(image.w, image.h) |->
                     IF c = <<0, 0>> THEN 255 ELSE 0]]),
     Some(NewImage("L", image.w + 1, image.h, 255))}

AngleArguments == {None} \cup {Some(angle) : angle \in Angles}

\* The turns that are modelled: see RotateModelled.
RotateAlphaModelled(angle, SSAA, method) ==
    ~(angle # None /\ ~RotateModelled(angle[1], SSAA, method))

ImageRotateExtendWithAlpha ==
    /\ Imported
    /\ \E image \in AlphaRotateImages, angle \in AngleArguments,
          SSAA \in 0 .. MaxSSAA, method \in Methods :
        /\ RotateAlphaModelled(angle, SSAA, method)
        /\ \E alpha \in AlphaArguments(image) :
            /\ call' = [fn |-> "image_rotate_extend_with_alpha",
                        image |-> image, angle |-> angle, alpha |-> alpha,
                        method |-> method, SSAA |-> SSAA]
            /\ ret' = IF RotateAlphaRaises(image, angle, alpha, SSAA) # ""
                      THEN Raised(RotateAlphaRaises(image, angle, alpha, SSAA))
                      ELSE image_rotate_extend_with_alpha(image, angle, alpha,
                                                          SSAA)
            /\ UNCHANGED rng

(***************************************************************************)
(* The blend_* helpers called on their own.  The background is a row of    *)
(* one sample value, the layer the row of the 256 sample values; img is    *)
(* the float array a helper holds before ski2cv2.                          *)
(***************************************************************************)
BlendNames ==
    {"blend_color_burn", "blend_color_dodge", "blend_linear_burn",
     "blend_linear_dodge", "blend_lighten", "blend_dark", "blend_screen",
     "blend_overlay", "blend_soft_light", "blend_hard_light",
     "blend_vivid_light", "blend_pin_light", "blend_linear_light",
     "blend_hard_mix"}

\* img of the helper called name, for one pair of samples
BlendImg(name, x, y) ==
    CASE name = "blend_color_burn"   -> blend_color_burn(x, y)
      [] name = "blend_color_dodge"  -> blend_color_dodge(x, y)
      [] name = "blend_linear_burn"  -> blend_linear_burn(x, y)
      [] name = "blend_linear_dodge" -> blend_linear_dodge(x, y)
      [] name = "blend_lighten"      -> blend_lighten(x, y)
      [] name = "blend_dark"         -> blend_dark(x, y)
      [] name = "blend_screen"       -> blend_screen(x, y)
      [] name = "blend_overlay"      -> blend_overlay(x, y)
      [] name = "blend_soft_light"   -> blend_soft_light(x, y)
      [] name = "blend_hard_light"   -> blend_hard_light(x, y)
      [] name = "blend_vivid_light"  -> blend_vivid_light(x, y)
      [] name = "blend_pin_light"    -> blend_pin_light(x, y)
      [] name = "blend_linear_light" -> blend_linear_light(x, y)
      [] name = "blend_hard_mix"     -> blend_hard_mix(x, y)

\* The sample values of an 8-bit channel.
Samples == 0 .. 255

BlendRow ==
    /\ Imported
    /\ \E name \in BlendNames, background \in Samples :
        /\ call' = [fn |-> name, background |-> background]
        /\ ret' = [raised |-> "",
                   img |-> [layer \in Samples |->
                              BlendImg(name, background, layer)],
                   image |-> [layer \in Samples |->
                                ski2cv2(BlendImg(name, background, layer))]]
        /\ UNCHANGED rng

(***************************************************************************)
(* The library as a state machine.                                         *)
(***************************************************************************)
Init ==
    /\ call = [fn |-> "import"]
    /\ ret = [raised |-> ""]
    /\ rng = 0

Next ==
    \/ ShiftImage
    \/ ChopImage
    \/ MaskInvert
    \/ RGBToHex
    \/ HexToRGB
    \/ GammaTrans
    \/ FitResizeImage
    \/ RotateExpand
    \/ RandomNumbers
    \/ RandomNumbersAgain
    \/ LutApply
    \/ LoadIni
    \/ GetImageColorTone
    \/ GetImageBrightAverage
    \/ MaxInscribedRect
    \/ ImageRotateExtendWithAlpha
    \/ BlendRow

Spec == Init /\ [][Next]_vars

SpecShift == Init /\ [][ShiftImage]_vars

SpecChop == Init /\ [][ChopImage]_vars

SpecMask == Init /\ [][MaskInvert]_vars

SpecHex == Init /\ [][RGBToHex \/ HexToRGB]_vars

SpecGamma == Init /\ [][GammaTrans]_vars

SpecFit == Init /\ [][FitResizeImage]_vars

SpecRotate == Init /\ [][RotateExpand]_vars

SpecRandom == Init /\ [][RandomNumbers \/ RandomNumbersAgain]_vars

SpecLut == Init /\ [][LutApply]_vars

SpecIni == Init /\ [][LoadIni]_vars

SpecTone == Init /\ [][GetImageColorTone]_vars

SpecBright == Init /\ [][GetImageBrightAverage]_vars

SpecRect == Init /\ [][MaxInscribedRect]_vars

SpecAlpha == Init /\ [][ImageRotateExtendWithAlpha]_vars

SpecBlend == Init /\ [][BlendRow]_vars

(***************************************************************************)
(* Properties of shift_image.                                              *)
(***************************************************************************)
ShiftDone(cyclic) == call.fn = "shift_image" /\ call.cyclic = cyclic

\* C9: in clipped mode every output pixel (x, y) whose source coordinate
\* (x + distance_x, y + distance_y) lies inside the image equals the input
\* pixel there, every other output pixel is the background colour, and a
\* shift by (0, 0) returns the input pixels unchanged.
C9_ClippedShiftTranslates ==
    ShiftDone(FALSE) =>
        /\ Returned(ret)
        /\ \A c \in Coords(call.image.w, call.image.h) :
             LET src == <<c[1] + call.distance_x, c[2] + call.distance_y>>
             IN  ret.image.px[c] =
                    IF src \in Coords(call.image.w, call.image.h)
                    THEN call.image.px[src]
                    ELSE call.background_color
        /\ (call.distance_x = 0 /\ call.distance_y = 0
               => ret.image.px = call.image.px)

\* C10: in wraparound mode, for every distance (negative, zero, larger than
\* the image), the call returns; every output pixel (x, y) is written and
\* equals the input pixel at ((x + distance_x) mod width, (y + distance_y)
\* mod height), a coordinate inside the image; the sources are a permutation
\* of the coordinates; and shifting the result back by the opposite
\* distances restores the input.
C10_CyclicShiftWraps ==
    ShiftDone(TRUE) =>
        LET cs == Coords(call.image.w, call.image.h)
            src(c) == <<(c[1] + call.distance_x) % call.image.w,
                        (c[2] + call.distance_y) % call.image.h>>
        IN  /\ Returned(ret)
            /\ ret.image.w = call.image.w /\ ret.image.h = call.image.h
            /\ \A c \in cs : src(c) \in cs /\ ret.image.px[c] = call.image.px[src(c)]
            /\ ret.written = cs
            /\ {src(c) : c \in cs} = cs
            /\ shift_image(ret.image, -call.distance_x, -call.distance_y,
                           call.background_color, TRUE) = call.image

\* A wraparound shift further left and up than the image is wide and high,
\* of an image that is not uniform, which moved pixels.
C10_Witness ==
    /\ ShiftDone(TRUE) /\ Returned(ret)
    /\ call.distance_x < -call.image.w /\ call.distance_y < -call.image.h
    /\ call.image.w > 1 /\ call.image.h > 1
    /\ ret.image # call.image

(***************************************************************************)
(* Properties of chop_image.                                               *)
(***************************************************************************)
ChopDone == call.fn = "chop_image"

\* C1: chop_image(background = B, layer = B, 'normal', 100) returns a buffer
\* whose pixels equal B's, pixel for pixel, and leaves B unmodified.
C1_NormalSelfBlendIsIdentity ==
    (/\ ChopDone
     /\ call.layer_image = call.background_image
     /\ call.blend_mode = "normal" /\ call.opacity = 100) =>
        /\ Returned(ret)
        /\ ret.image.w = call.background_image.w
        /\ ret.image.h = call.background_image.h
        /\ \A c \in Coords(call.background_image.w, call.background_image.h) :
               ret.image.px[c] = call.background_image.px[c]
        /\ ret.background_image = call.background_image
        /\ ret.layer_image = call.layer_image

\* A buffer with a pixel that multiplying it by itself would change.
C1_Witness ==
    /\ ChopDone /\ Returned(ret)
    /\ call.layer_image = call.background_image
    /\ call.blend_mode = "normal" /\ call.opacity = 100
    /\ call.background_image.px[<<0, 0>>] = <<127, 200, 1>>

MaskDone == call.fn = "mask_invert"

\* Is the float a multiple of 2^-24 (the spacing of float32 in [0.5, 1])?
OnGrid24(f) == f.m = 0 \/ f.e >= -24 \/ f.m % 2^(-24 - f.e) = 0

\* A float in [0, 1/2] as a count of 2^-31
Units31(f) == f.m * 2^(f.e + 31)

\* C3 as stated: mask_invert is an exact involution: for every mask m,
\* mask_invert(mask_invert(m)) equals m sample for sample.
C3_InvertIsExactInvolution ==
    MaskDone => mask_invert(ret.mask) = call.mask

\* C3 amended: mask_invert(mask_invert(m)) is m with every sample rounded to
\* the nearest multiple of 2^-24: it equals m sample for sample where the
\* sample is such a multiple (0, 1 and every float32 from 0.5 up, so every
\* binary mask) and is a multiple of 2^-24 within 2^-25 of the sample
\* elsewhere.
C3_InvertRoundTripsOnGrid ==
    MaskDone =>
        /\ Returned(ret)
        /\ DOMAIN ret.mask = DOMAIN call.mask
        /\ \A i \in DOMAIN call.mask :
             LET m == call.mask[i]
                 r == mask_invert(ret.mask)[i]
             IN  IF OnGrid24(m) THEN r = m
                 ELSE /\ OnGrid24(r)
                      /\ Abs(Units31(r) - Units31(m)) <= 2^6

\* The inversion of a mask with the sample 1/255, which is not a multiple of
\* 2^-24 and does not come back, and of one with the sample 200/255, which
\* does.
C3_Witness ==
    /\ MaskDone /\ Returned(ret)
    /\ \/ /\ call.mask[1] = F32Div(1, 255)
          /\ mask_invert(ret.mask)[1] # call.mask[1]
       \/ /\ call.mask[1] = F32Div(200, 255)
          /\ ret.mask[1] # call.mask[1]
          /\ mask_invert(ret.mask)[1] = call.mask[1]

(***************************************************************************)
(* Properties of RGB_to_Hex and Hex_to_RGB.                                *)
(***************************************************************************)
\* C4: for every RGB triple c with each channel in 0..255, RGB_to_Hex(c) is
\* the 7-character string '#RRGGBB' (two upper-case hexadecimal digits per
\* channel, zero-padded below 16) and Hex_to_RGB(RGB_to_Hex(c)) = c; and
\* Hex_to_RGB of a '#RRGGBB' string returns the triple that string is
\* written for.
C4_HexRoundTrip ==
    /\ call.fn = "RGB_to_Hex" =>
        /\ Returned(ret)
        /\ Len(ret.color) = 7
        /\ ret.color =
             <<"#", HexDigitsUpper[call.RGB[1] \div 16 + 1],
                    HexDigitsUpper[(call.RGB[1] % 16) + 1],
                    HexDigitsUpper[call.RGB[2] \div 16 + 1],
                    HexDigitsUpper[(call.RGB[2] % 16) + 1],
                    HexDigitsUpper[call.RGB[3] \div 16 + 1],
                    HexDigitsUpper[(call.RGB[3] % 16) + 1]>>
        /\ ~HexRaises(ret.color)
        /\ Hex_to_RGB(ret.color) = call.RGB
    /\ (/\ call.fn = "Hex_to_RGB"
        /\ Len(call.inhex) = 7 /\ call.inhex[1] = "#"
        /\ \A i \in 2 .. 7 : \E d \in 1 .. 16 :
               call.inhex[i] = HexDigitsUpper[d]) =>
        /\ Returned(ret)
        /\ \A i \in 1 .. 3 : ret.rgb[i] \in 0 .. 255
        /\ RGB_to_Hex(ret.rgb) = call.inhex

\* The string of a colour with a channel below 16, one at 255 and one
\* between.
C4_Witness ==
    /\ call.fn = "RGB_to_Hex" /\ Returned(ret)
    /\ call.RGB = <<9, 255, 171>>
    /\ ret.color = <<"#", "0", "9", "F", "F", "A", "B">>

(***************************************************************************)
(* Properties of gamma_trans.                                              *)
(***************************************************************************)
\* C7: gamma_trans with gamma = 1.0 is the identity: its 256-entry table
\* maps every channel value x in 0..255 to x, and every pixel of the output
\* equals the input pixel.
C7_GammaOneIsIdentity ==
    (call.fn = "gamma_trans" /\ call.gamma = 1) =>
        /\ Returned(ret)
        /\ DOMAIN ret.gamma_table = 0 .. 255
        /\ \A x \in 0 .. 255 : ret.gamma_table[x] = x
        /\ ret.image.w = call.image.w /\ ret.image.h = call.image.h
        /\ \A c \in Coords(call.image.w, call.image.h) :
               ret.image.px[c] = call.image.px[c]

\* gamma 1.0 on a pixel that gamma 2.0 would darken.
C7_Witness ==
    /\ call.fn = "gamma_trans" /\ call.gamma = 1 /\ Returned(ret)
    /\ call.image.px[<<0, 0>>] = <<128, 213, 127>>
    /\ gamma_trans(call.image, 2).px[<<0, 0>>] # call.image.px[<<0, 0>>]

(***************************************************************************)
(* Properties of random_numbers.                                           *)
(***************************************************************************)
\* C8: for every total >= 1, random_range >= 0, seed and sum_of_numbers, the
\* call returns; each returned list has exactly total entries that sum to
\* sum_of_numbers; and a second invocation with the same arguments returns
\* the list the first one returned.
C8_RandomNumbersDeterministicSumExact ==
    (call.fn = "random_numbers" /\ call.total >= 1
        /\ call.random_range >= 0) =>
        /\ Returned(ret)
        /\ Len(ret.lists) >= 1
        /\ \A i \in DOMAIN ret.lists :
             /\ Len(ret.lists[i]) = call.total
             /\ Sum(ret.lists[i]) = call.sum_of_numbers
             /\ ret.lists[i] = ret.lists[1]

\* Two invocations that drew numbers which differ from one another, the
\* second from a generator state other than the one the seed sets.
C8_Witness ==
    /\ call.fn = "random_numbers" /\ Returned(ret)
    /\ Len(ret.lists) = 2
    /\ call.total = 3 /\ call.random_range = 3
    /\ ret.lists[2][1] # ret.lists[2][2]
    /\ rng # RandomSeed(rng, call.seed)

(***************************************************************************)
(* Properties of fit_resize_image.                                         *)
(***************************************************************************)
LetterboxDone == call.fn = "fit_resize_image" /\ call.fit = "letterbox"

\* C6: with fit = 'letterbox', for every positive source size (ow, oh) and
\* target size (tw, th): the call returns an image of exactly tw x th; the
\* source is scaled to (fw, fh) with 0 < fw <= tw, 0 < fh <= th and one of
\* them the target dimension, the other the truncated proportional side; the
\* scaled image is pasted at ((tw - fw) // 2, (th - fh) // 2) and every pixel
\* outside that box is black.  A 200x100 source to a 100x100 target gives a
\* 100x50 scaled image with 25 black rows above and 25 below.
C6_LetterboxFitsAndCentres ==
    LetterboxDone =>
        LET ow == call.image.w
            oh == call.image.h
            tw == call.target_width
            th == call.target_height
            fit_image == LetterboxFitImage(call.image, tw, th)
            fw == fit_image.w
            fh == fit_image.h
            left == (tw - fw) \div 2
            top == (th - fh) \div 2
        IN  /\ Returned(ret)
            /\ ret.image.w = tw /\ ret.image.h = th
            /\ DOMAIN ret.image.px = Coords(tw, th)
            /\ 0 < fw /\ fw <= tw /\ 0 < fh /\ fh <= th
            /\ \/ fw = tw /\ fh = (tw * oh) \div ow
               \/ fh = th /\ fw = (th * ow) \div oh
            /\ \A c \in Coords(tw, th) :
                 IF /\ left <= c[1] /\ c[1] < left + fw
                    /\ top <= c[2] /\ c[2] < top + fh
                 THEN ret.image.px[c] = fit_image.px[<<c[1] - left, c[2] - top>>]
                 ELSE ret.image.px[c] = Black
            /\ (ow = 200 /\ oh = 100 /\ tw = 100 /\ th = 100) =>
                 /\ fw = 100 /\ fh = 50
                 /\ \A c \in Coords(100, 100) :
                      ret.image.px[c] = Black <=> (c[2] < 25 \/ c[2] >= 75)

(***************************************************************************)
(* Properties of __rotate_expand.                                          *)
(***************************************************************************)
\* C5: __rotate_expand with angle exactly 0 or exactly 360 returns a buffer
\* with the width, the height and the pixel values of its input, for every
\* SSAA factor and every resampling method, and performs no resize and no
\* rotate step.
C5_ZeroRotationIsIdentity ==
    (call.fn = "__rotate_expand" /\ call.angle \in {0, 360}) =>
        /\ Returned(ret)
        /\ ret.steps = <<>>
        /\ ret.image.w = call.image.w /\ ret.image.h = call.image.h
        /\ ret.image.mode = call.image.mode
        /\ \A c \in Coords(call.image.w, call.image.h) :
               ret.image.px[c] = call.image.px[c]

(***************************************************************************)
(* Properties of lut_apply.                                                *)
(***************************************************************************)
LutDone == call.fn = "lut_apply"

\* C11: for every pixel with channels in 0..255 the positions
\* round(channel / 255 * 32) lie in 0..32 and the flat index lies in
\* 0 .. 33^3 - 1; when the loaded table has fewer entries than index + 1 the
\* call raises IndexError instead of wrapping to another entry, and a
\* returned image holds, at every pixel, the rounded entry at that pixel's
\* index and nothing else.
C11_LutIndexInTableOrRaises ==
    (LutDone /\ LutLoadError(call.lut_file) = "") =>
        LET lut_cube == LutLoad(call.lut_file)
            cs == Coords(call.image.w, call.image.h)
            index(c) == LutPos(call.image.px[c][1])
                          + 33 * LutPos(call.image.px[c][2])
                          + 1089 * LutPos(call.image.px[c][3])
        IN  /\ \A c \in cs :
                 /\ \A i \in 1 .. 3 : LutPos(call.image.px[c][i]) \in 0 .. 32
                 /\ index(c) \in 0 .. 35936
                 /\ LutIndex(call.image.px[c]) = index(c)
            /\ (\E c \in cs : Len(lut_cube) < index(c) + 1)
                  => ret = Raised("IndexError")
            /\ (\A c \in cs : Len(lut_cube) >= index(c) + 1)
                  => /\ Returned(ret)
                     /\ \A c \in cs : \A i \in 1 .. 3 :
                          ret.image.px[c][i] =
                            RoundHalfEven(lut_cube[index(c) + 1][i].n,
                                          lut_cube[index(c) + 1][i].d)

\* A pixel whose index is one past the end of a table of three entries.
C11_Witness ==
    /\ LutDone /\ LutLoadError(call.lut_file) = ""
    /\ Len(LutLoad(call.lut_file)) = 3
    /\ call.image.w = 1
    /\ LutIndex(call.image.px[<<0, 0>>]) = 3
    /\ ret = Raised("IndexError")

\* C12: every line with a letter contributes no table entry, and every other
\* line (three numbers separated by white space: one space, several spaces
\* or tabs; blank lines tolerated) contributes exactly one entry, in file
\* order, of the line's three numbers times 255: the file loads, blank lines
\* are passed over, and the k-th entry is the k-th data triple.
C12_LutLoadsEveryDataLine ==
    LutDone =>
        LET IsWhite(p) == p.kind = "space" \/ p.kind = "tab"
            Numbers(line) == SelectSeq(line, LAMBDA p : p.kind = "number")
            IsBlank(line) == \A i \in DOMAIN line : IsWhite(line[i])
            IsData(line) ==
                /\ ~has_letters(line)
                /\ \A i \in DOMAIN line : IsWhite(line[i]) \/ line[i].kind = "number"
                /\ Len(Numbers(line)) = 3
                /\ \A i \in 1 .. Len(line) - 1 :
                     ~(line[i].kind = "number" /\ line[i + 1].kind = "number")
            WellFormed ==
                \A k \in DOMAIN call.lut_file :
                    \/ has_letters(call.lut_file[k])
                    \/ IsBlank(call.lut_file[k])
                    \/ IsData(call.lut_file[k])
            data == SelectSeq(call.lut_file, IsData)
        IN  WellFormed =>
              /\ LutLoadError(call.lut_file) = ""
              /\ Len(LutLoad(call.lut_file)) = Len(data)
              /\ \A k \in DOMAIN data : \A i \in 1 .. 3 :
                   LutLoad(call.lut_file)[k][i] =
                       Rat(Numbers(data[k])[i].halves * 255, 2)

(***************************************************************************)
(* Properties of the ini loading.                                          *)
(***************************************************************************)
IniDone == call.fn = "load_ini"

\* The lines of the file with a given key, and those naming a given kind
\* of path.
IniKeyLines(key) ==
    SelectSeq(call.file.lines, LAMBDA l : l.key = key)

IniKeyFound(key) ==
    SelectSeq(IniKeyLines(key), LAMBDA l : l.path \in ExistingPaths)

\* C13: the loading never aborts; whatever the ini file (missing,
\* unreadable, no keys, keys naming non-existent paths, repeated keys in any
\* order), the LUT directory is the default or an existing path given by a
\* LUT_dir= line (the last such line), the font directory likewise for
\* FONT_dir=; a key naming a non-existent path changes no directory and
\* logs one message; a LUT_dir= line never changes the font directory and
\* vice versa.
C13_IniLoadingFallsBack ==
    IniDone =>
        LET lut == IniKeyFound("LUT_dir")
            font == IniKeyFound("FONT_dir")
            bad == SelectSeq(call.file.lines,
                       LAMBDA l : l.key # "" /\ l.path \notin ExistingPaths)
        IN  /\ Returned(ret)
            /\ ret.dirs.lut =
                 IF lut = <<>> THEN DefaultLutDir ELSE lut[Len(lut)].path
            /\ ret.dirs.font =
                 IF font = <<>> THEN DefaultFontDir ELSE font[Len(font)].path
            /\ ret.dirs.lut \in {DefaultLutDir} \cup ExistingPaths
            /\ ret.dirs.font \in {DefaultFontDir} \cup ExistingPaths
            /\ call.file.state = "readable" =>
                 /\ Len(ret.dirs.log) = Len(bad)
                 /\ \A i \in DOMAIN bad : ret.dirs.log[i] = bad[i].key
            /\ call.file.state # "readable" => Len(ret.dirs.log) = 1

\* A file that sets the font directory, then names a missing LUT directory,
\* then sets the LUT directory.
C13_Witness ==
    /\ IniDone /\ Returned(ret)
    /\ Len(call.file.lines) = 3
    /\ call.file.lines[1] = [key |-> "FONT_dir", path |-> "/data/font"]
    /\ call.file.lines[2] = [key |-> "LUT_dir", path |-> "/gone"]
    /\ call.file.lines[3] = [key |-> "LUT_dir", path |-> "/data/lut"]
    /\ ret.dirs.lut = "/data/lut" /\ ret.dirs.font = "/data/font"
    /\ ret.dirs.log = <<"LUT_dir">>

(***************************************************************************)
(* Properties of get_image_color_tone.                                     *)
(***************************************************************************)
\* C14: for every non-empty image (one whose colours are all near-white,
\* luma > 0.9, included) the call returns the hex encoding of a colour of
\* the image: the one with the highest (saturation + 0.1) * pixel_count
\* among the colours that are not near-white, the first in histogram order
\* on a tie; it never fails and never returns a skipped colour.
C14_ColorToneIsBestScore ==
    call.fn = "get_image_color_tone" =>
        LET h == call.colors
            kept == {i \in DOMAIN h : ~NearWhite(h[i].color)}
            score(i) == ToneScore(h[i].count, h[i].color)
            best == {i \in kept :
                        \A j \in kept : /\ ~RatLess(score(i), score(j))
                                        /\ (j < i => RatLess(score(j), score(i)))}
        IN  /\ Returned(ret)
            /\ \E i \in DOMAIN h : ret.color = RGB_to_Hex(h[i].color)
            /\ \A i \in DOMAIN h :
                 NearWhite(h[i].color) => ret.color # RGB_to_Hex(h[i].color)
            /\ \E i \in best : ret.color = RGB_to_Hex(h[i].color)

(***************************************************************************)
(* Properties of get_image_bright_average.                                 *)
(***************************************************************************)
\* The pixels of an image that the average counts: those brighter than 1.
BrightCounted(image) == {c \in Coords(image.w, image.h) : image.px[c] > 1}

RECURSIVE SumOver(_, _)
SumOver(image, cs) ==
    IF cs = {} THEN 0
    ELSE LET c == CHOOSE d \in cs : TRUE
         IN  image.px[c] + SumOver(image, cs \ {c})

\* C15: for every non-empty greyscale image (one whose pixels are all <= 1
\* included) the call returns an integer in 0 .. 255, the truncated mean of
\* the pixel values greater than 1; it never divides by zero.
C15_BrightAverageIsTruncatedMean ==
    call.fn = "get_image_bright_average" =>
        LET counted == BrightCounted(call.image)
        IN  /\ Returned(ret)
            /\ ret.bright \in 0 .. 255
            /\ counted # {} =>
                 ret.bright = SumOver(call.image, counted) \div Cardinality(counted)

(***************************************************************************)
(* Properties of max_inscribed_rect.                                       *)
(***************************************************************************)
\* The four border lines of the rectangle spanned by p1 and p2 lie on
\* non-zero pixels of the image.
BorderInside(image, p1, p2) ==
    /\ \A x \in Min(p1[1], p2[1]) .. Max(p1[1], p2[1]) :
          /\ image.px[<<x, p1[2]>>] # Black
          /\ image.px[<<x, p2[2]>>] # Black
    /\ \A y \in Min(p1[2], p2[2]) .. Max(p1[2], p2[2]) :
          /\ image.px[<<p1[1], y>>] # Black
          /\ image.px[<<p2[1], y>>] # Black

PairArea(p1, p2) == Abs(p2[2] - p1[2]) * Abs(p2[1] - p1[1])

RectDone == call.fn = "max_inscribed_rect" /\ Returned(ret)

\* C16: for a mask with at least one contour, the candidate list holds one
\* rectangle per ordered pair of points of the first contour and is in
\* order of non-increasing area; the search stops at the first candidate
\* whose four border lines lie on non-zero pixels; the result (x, y, w, h)
\* is that candidate normalized to its top-left corner with w >= 0 and
\* h >= 0; and no candidate of strictly larger area has such a border.
C16_InscribedRectIsFirstValid ==
    (call.fn = "max_inscribed_rect" /\ call.contour # <<>>) =>
        LET contour == call.contour
            n == Len(contour)
            all_rect == ret.all_rect
            k == ret.index_rect
            pts == {contour[i] : i \in 1 .. n}
        IN  /\ Returned(ret)
            /\ Len(all_rect) = n * n
            /\ \A a, b \in pts :
                 Cardinality({m \in 1 .. n * n :
                                all_rect[m].p1 = a /\ all_rect[m].p2 = b})
                 = Cardinality({i \in 1 .. n : contour[i] = a})
                   * Cardinality({j \in 1 .. n : contour[j] = b})
            /\ \A m \in 1 .. n * n :
                 all_rect[m].area = PairArea(all_rect[m].p1, all_rect[m].p2)
            /\ \A m \in 1 .. n * n - 1 :
                 all_rect[m].area >= all_rect[m + 1].area
            /\ BorderInside(call.image, all_rect[k].p1, all_rect[k].p2)
            /\ \A m \in 1 .. k - 1 :
                 ~BorderInside(call.image, all_rect[m].p1, all_rect[m].p2)
            /\ ret.rect = <<Min(all_rect[k].p1[1], all_rect[k].p2[1]),
                            Min(all_rect[k].p1[2], all_rect[k].p2[2]),
                            Abs(all_rect[k].p2[1] - all_rect[k].p1[1]),
                            Abs(all_rect[k].p2[2] - all_rect[k].p1[2])>>
            /\ ret.rect[3] >= 0 /\ ret.rect[4] >= 0
            /\ \A i, j \in 1 .. n :
                 PairArea(contour[i], contour[j]) > ret.rect[3] * ret.rect[4]
                     => ~BorderInside(call.image, contour[i], contour[j])

\* A search that rejected a larger candidate before it accepted one.
C16_Witness ==
    /\ RectDone
    /\ ret.index_rect > 1
    /\ ret.all_rect[1].area > ret.all_rect[ret.index_rect].area


(***************************************************************************)
(* Properties of image_rotate_extend_with_alpha.                           *)
(***************************************************************************)
\* C17: the call completes on every path with a fully defined triple
\* (rotated image, rotated alpha, combined image).  With an alpha buffer
\* the alpha is rotated with the angle, SSAA factor and method of the image
\* and the third component is the 4-channel combination of the two; with
\* alpha left at None the call still returns, with the rotated image as
\* the combined result.
C17_RotateWithAlphaCompletes ==
    (/\ call.fn = "image_rotate_extend_with_alpha"
     /\ call.angle # None
     /\ (call.alpha # None => /\ call.alpha[1].w = call.image.w
                              /\ call.alpha[1].h = call.image.h)) =>
        /\ Returned(ret)
        /\ ret.image = rotate_expand(call.image, call.angle[1], call.SSAA)
        /\ call.alpha # None =>
             /\ ret.alpha = rotate_expand(ConvertRGB(call.alpha[1]),
                                          call.angle[1], call.SSAA)
             /\ ret.ret_image.mode = "RGBA"
             /\ \A c \in DOMAIN ret.ret_image.px :
                  /\ <<ret.ret_image.px[c][1], ret.ret_image.px[c][2],
                       ret.ret_image.px[c][3]>> = ConvertRGB(ret.image).px[c]
                  /\ ret.ret_image.px[c][4] = ConvertL(ret.alpha).px[c]
        /\ call.alpha = None => ret.ret_image = ret.image

(***************************************************************************)
(* Properties of the blend_* helpers.                                      *)
(***************************************************************************)
\* The fraction v lies in the closed range [0, 1].
InUnitRange(v) == v.d > 0 /\ 0 <= v.n /\ v.n <= v.d

\* C18: every blend_* helper leaves, for every pair of background and
\* layer samples k / 255 with k in 0 .. 255, a value in the closed range
\* [0, 1] before the conversion back to 8 bits, the helpers that clamp and
\* the ones that do not (screen, overlay, soft light, hard light, pin
\* light, lighten, darken) alike.
C18_BlendStaysInUnitRange ==
    call.fn \in BlendNames =>
        \A layer \in Samples :
            /\ InUnitRange(ret.img[layer])
            /\ ret.image[layer] \in 0 .. 255

\* A linear dodge whose sum left the range and was replaced by 1, and a
\* linear burn whose difference was replaced by 0.
C18_Witness ==
    \/ /\ call.fn = "blend_linear_dodge"
       /\ \E layer \in Samples :
            call.background + layer > 255 /\ ret.img[layer] = Rat(1, 1)
    \/ /\ call.fn = "blend_linear_burn"
       /\ \E layer \in Samples :
            call.background + layer < 255 /\ ret.img[layer] = Rat(0, 1)

====
